---- MODULE Spec2Model ----
(***************************************************************************)
(* Model of src/solaredge.py: the polling coroutine write_to_influx, its   *)
(* nested read_regs helper and publish_metrics.                            *)
(*                                                                         *)
(* Strings that the program manipulates (metric names) are sequences of    *)
(* one-character strings, so that str.replace and str() are computed.      *)
(* Device labels "<manufacturer>(<serial>)" are represented by the device  *)
(* whose identification block they were derived from: <<class, index>>.    *)
(***************************************************************************)
EXTENDS Integers, Sequences, FiniteSets, TLC

VARIABLES
  mbmeters,        \* args.meters
  mbbatteries,     \* args.batteries
  legacysupport,   \* args.legacy_support
  pc,              \* position of write_to_influx: the stage whose read / write is pending
  rpc,             \* position inside read_regs: "req", "retry", "sleep", returned "ok"/"fail", or "idle"
  x,               \* loop variable of the meter / battery for-loops
  connflag,        \* line 169
  battflag,        \* line 209
  dictMeterLabel,  \* line 172
  dictBattery,     \* line 212
  conn,            \* socket of the ModbusClient: "open" or "closed"
  connFailed,      \* history: the last request sent on the open socket failed
  addr,            \* history: the addr argument of the last read_regs call
  call,            \* history: what the read_regs call at hand has done, until its caller takes the result
  datapoint,       \* global datapoint
  promInv,         \* global gauge cache for inverter and battery
  promMeter,       \* global gauge cache for meters
  influx,          \* the time-series sink: last datapoint accepted by solar_client.write
  lastLog,         \* what the last step logged
  issued,          \* history: devices whose telemetry read was issued in the current cycle
  okRead,          \* history: devices whose telemetry read returned a block in the current cycle
  published,       \* history: devices handed to publish_metrics in the current cycle
  raised,          \* history: an exception reached the handler of the steady-state loop in the current cycle
  reads,           \* history: <<"issued", stage>> a read request of the stage was issued, <<"ok", stage>> one returned a block, <<"exit", stage>> its loop was left
  waited,          \* history: an asyncio.sleep(period) has completed since the last read request was issued
  called,          \* history: the addr arguments of the read_regs calls made since the last asyncio.sleep(period) completed
  created,         \* history: how many times Gauge(name, ...) was constructed, by metric name
  ip,              \* position in the decoding recipe of the block at hand; 0: not decoding; -i: operation i raised
  fill,            \* the words of the block at hand, see reg_block
  data,            \* the BinaryPayloadDecoder: byte order, word order, byte pointer
  scalefactor,     \* the exponent e of scalefactor = 10**e
  sfreg,           \* history: the register, counted from 0, that scalefactor was read from
  dictOut,         \* dictInv / dictM / dictB as filled so far by the recipe
  rawOf            \* history: for each decoded field the register words read, the number the decoder returned,
                   \* the byte offset it was read at, and the scale factor at hand with its register

vars == <<mbmeters, mbbatteries, legacysupport, pc, rpc, x, connflag, battflag,
          dictMeterLabel, dictBattery, conn, connFailed, addr, call, datapoint, promInv,
          promMeter, influx, lastLog, issued, okRead, published, raised,
          reads, waited, called, created,
          ip, fill, data, scalefactor, sfreg, dictOut, rawOf>>

cfgVars  == <<mbmeters, mbbatteries, legacysupport>>
sinkVars == <<datapoint, promInv, promMeter, influx, created>>
histVars == <<issued, okRead, published, raised>>
infoVars == <<connflag, battflag, dictMeterLabel, dictBattery>>
decVars  == <<ip, fill, data, scalefactor, sfreg, dictOut, rawOf>>

----------------------------------------------------------------------------
(* Bounds and program constants *)

MaxFields == 2       \* the polling model carries the first MaxFields fields of each reading

MaxMeters == 3       \* --meters (0-3)
MaxBatteries == 2    \* --batteries (0-2)

MB_NO_ERR == 0
MB_CONNECT_ERR == 2
MB_SEND_ERR == 3
MB_RECV_ERR == 4
MB_TIMEOUT_ERR == 5
MB_EXCEPT_ERR == 7

LastErrors == {MB_CONNECT_ERR, MB_SEND_ERR, MB_RECV_ERR, MB_TIMEOUT_ERR, MB_EXCEPT_ERR}

----------------------------------------------------------------------------
(* Field names of the three readings (the keys of dictInv, dictM and dictB), *)
(* in the order the recipes insert them                                     *)

InvFieldNames ==
  << <<"S","u","n","S","p","e","c","_","D","I","D">>
  ,  <<"S","u","n","S","p","e","c","_","L","e","n","g","t","h">>
  ,  <<"A","C","_","C","u","r","r","e","n","t">>
  ,  <<"A","C","_","C","u","r","r","e","n","t","A">>
  ,  <<"A","C","_","C","u","r","r","e","n","t","B">>
  ,  <<"A","C","_","C","u","r","r","e","n","t","C">>
  ,  <<"A","C","_","V","o","l","t","a","g","e","A","B">>
  ,  <<"A","C","_","V","o","l","t","a","g","e","B","C">>
  ,  <<"A","C","_","V","o","l","t","a","g","e","C","A">>
  ,  <<"A","C","_","V","o","l","t","a","g","e","A","N">>
  ,  <<"A","C","_","V","o","l","t","a","g","e","B","N">>
  ,  <<"A","C","_","V","o","l","t","a","g","e","C","N">>
  ,  <<"A","C","_","P","o","w","e","r">>
  ,  <<"A","C","_","F","r","e","q","u","e","n","c","y">>
  ,  <<"A","C","_","V","A">>
  ,  <<"A","C","_","V","A","R">>
  ,  <<"A","C","_","P","F">>
  ,  <<"A","C","_","E","n","e","r","g","y","_","W","H">>
  ,  <<"D","C","_","C","u","r","r","e","n","t">>
  ,  <<"D","C","_","V","o","l","t","a","g","e">>
  ,  <<"D","C","_","P","o","w","e","r">>
  ,  <<"T","e","m","p","_","S","i","n","k">>
  ,  <<"S","t","a","t","u","s">>
  ,  <<"S","t","a","t","u","s","_","V","e","n","d","o","r">>
  ,  <<"A","C","_","C","u","r","r","e","n","t","_","S","F">>
  ,  <<"A","C","_","V","o","l","t","a","g","e","_","S","F">>
  ,  <<"A","C","_","P","o","w","e","r","_","S","F">>
  ,  <<"A","C","_","F","r","e","q","u","e","n","c","y","_","S","F">>
  ,  <<"A","C","_","V","A","_","S","F">>
  ,  <<"A","C","_","V","A","R","_","S","F">>
  ,  <<"A","C","_","P","F","_","S","F">>
  ,  <<"A","C","_","E","n","e","r","g","y","_","W","H","_","S","F">>
  ,  <<"D","C","_","C","u","r","r","e","n","t","_","S","F">>
  ,  <<"D","C","_","V","o","l","t","a","g","e","_","S","F">>
  ,  <<"D","C","_","P","o","w","e","r","_","S","F">>
  ,  <<"T","e","m","p","_","S","F">>
  >>

MeterFieldNames ==
  << <<"M","_","S","u","n","S","p","e","c","_","D","I","D">>
  ,  <<"M","_","S","u","n","S","p","e","c","_","L","e","n","g","t","h">>
  ,  <<"M","_","A","C","_","C","u","r","r","e","n","t">>
  ,  <<"M","_","A","C","_","C","u","r","r","e","n","t","A">>
  ,  <<"M","_","A","C","_","C","u","r","r","e","n","t","B">>
  ,  <<"M","_","A","C","_","C","u","r","r","e","n","t","C">>
  ,  <<"M","_","A","C","_","V","o","l","t","a","g","e","L","N">>
  ,  <<"M","_","A","C","_","V","o","l","t","a","g","e","A","N">>
  ,  <<"M","_","A","C","_","V","o","l","t","a","g","e","B","N">>
  ,  <<"M","_","A","C","_","V","o","l","t","a","g","e","C","N">>
  ,  <<"M","_","A","C","_","V","o","l","t","a","g","e","L","L">>
  ,  <<"M","_","A","C","_","V","o","l","t","a","g","e","A","B">>
  ,  <<"M","_","A","C","_","V","o","l","t","a","g","e","B","C">>
  ,  <<"M","_","A","C","_","V","o","l","t","a","g","e","C","A">>
  ,  <<"M","_","A","C","_","F","r","e","q","u","e","n","c","y">>
  ,  <<"M","_","A","C","_","P","o","w","e","r">>
  ,  <<"M","_","A","C","_","P","o","w","e","r","_","A">>
  ,  <<"M","_","A","C","_","P","o","w","e","r","_","B">>
  ,  <<"M","_","A","C","_","P","o","w","e","r","_","C">>
  ,  <<"M","_","A","C","_","V","A">>
  ,  <<"M","_","A","C","_","V","A","_","A">>
  ,  <<"M","_","A","C","_","V","A","_","B">>
  ,  <<"M","_","A","C","_","V","A","_","C">>
  ,  <<"M","_","A","C","_","V","A","R">>
  ,  <<"M","_","A","C","_","V","A","R","_","A">>
  ,  <<"M","_","A","C","_","V","A","R","_","B">>
  ,  <<"M","_","A","C","_","V","A","R","_","C">>
  ,  <<"M","_","A","C","_","P","F">>
  ,  <<"M","_","A","C","_","P","F","_","A">>
  ,  <<"M","_","A","C","_","P","F","_","B">>
  ,  <<"M","_","A","C","_","P","F","_","C">>
  ,  <<"M","_","E","x","p","o","r","t","e","d">>
  ,  <<"M","_","E","x","p","o","r","t","e","d","_","A">>
  ,  <<"M","_","E","x","p","o","r","t","e","d","_","B">>
  ,  <<"M","_","E","x","p","o","r","t","e","d","_","C">>
  ,  <<"M","_","I","m","p","o","r","t","e","d">>
  ,  <<"M","_","I","m","p","o","r","t","e","d","_","A">>
  ,  <<"M","_","I","m","p","o","r","t","e","d","_","B">>
  ,  <<"M","_","I","m","p","o","r","t","e","d","_","C">>
  ,  <<"M","_","A","C","_","C","u","r","r","e","n","t","_","S","F">>
  ,  <<"M","_","A","C","_","V","o","l","t","a","g","e","_","S","F">>
  ,  <<"M","_","A","C","_","F","r","e","q","u","e","n","c","y","_","S","F">>
  ,  <<"M","_","A","C","_","P","o","w","e","r","_","S","F">>
  ,  <<"M","_","A","C","_","V","A","_","S","F">>
  ,  <<"M","_","A","C","_","V","A","R","_","S","F">>
  ,  <<"M","_","A","C","_","P","F","_","S","F">>
  ,  <<"M","_","E","n","e","r","g","y","_","W","_","S","F">>
  >>

BatteryFieldNames ==
  << <<"B","_","R","a","t","e","d","_","E","n","e","r","g","y">>
  ,  <<"B","_","M","a","x","_","C","h","a","r","g","e","_","C","o","n","t","i","n","u","e","s","_","P","o","w","e","r">>
  ,  <<"B","_","M","a","x","_","D","i","s","c","h","a","r","g","e","_","C","o","n","t","i","n","u","e","s","_","P","o","w","e","r">>
  ,  <<"B","_","M","a","x","_","C","h","a","r","g","e","_","P","e","a","k","_","P","o","w","e","r">>
  ,  <<"B","_","M","a","x","_","D","i","s","c","h","a","r","g","e","_","P","e","a","k","_","P","o","w","e","r">>
  ,  <<"B","_","A","v","e","r","a","g","e","_","T","e","m","p","e","r","a","t","u","r","e">>
  ,  <<"B","_","M","a","x","_","T","e","m","p","e","r","a","t","u","r","e">>
  ,  <<"B","_","I","n","s","t","a","n","t","a","n","e","o","u","s","_","V","o","l","t","a","g","e">>
  ,  <<"B","_","I","n","s","t","a","n","t","a","n","e","o","u","s","_","C","u","r","r","e","n","t">>
  ,  <<"B","_","I","n","s","t","a","n","t","a","n","e","o","u","s","_","P","o","w","e","r">>
  ,  <<"B","_","L","i","f","e","t","i","m","e","_","E","x","p","o","r","t","_","E","n","e","r","g","y","_","C","o","u","n","t","e","r">>
  ,  <<"B","_","L","i","f","e","t","i","m","e","_","I","m","p","o","r","t","_","E","n","e","r","g","y","_","C","o","u","n","t","e","r">>
  ,  <<"B","_","M","a","x","_","E","n","e","r","g","y">>
  ,  <<"B","_","A","v","a","i","l","a","b","l","e","_","E","n","e","r","g","y">>
  ,  <<"B","_","S","t","a","t","e","_","o","f","_","H","e","a","l","t","h">>
  ,  <<"B","_","S","t","a","t","e","_","o","f","_","E","n","e","r","g","y">>
  ,  <<"B","_","S","t","a","t","u","s">>
  ,  <<"B","_","S","t","a","t","u","s","_","I","n","t","e","r","n","a","l">>
  >>

----------------------------------------------------------------------------
(* Strings *)

RECURSIVE Replace(_, _, _)
\* str.replace(old, new): left to right, non-overlapping occurrences
Replace(s, old, new) ==
  IF Len(s) < Len(old) THEN s
  ELSE IF SubSeq(s, 1, Len(old)) = old
       THEN new \o Replace(SubSeq(s, Len(old) + 1, Len(s)), old, new)
       ELSE <<Head(s)>> \o Replace(Tail(s), old, new)

Digit(d) == <<"0","1","2","3","4","5","6","7","8","9">>[d + 1]

RECURSIVE Str(_)
\* str(n) of a non-negative integer
Str(n) == IF n < 10 THEN <<Digit(n)>> ELSE Str(n \div 10) \o <<Digit(n % 10)>>

----------------------------------------------------------------------------
(* Devices, labels and readings *)

Inverter == <<"inverter", 0>>
Meter(i) == <<"meter", i>>
Battery(i) == <<"battery", i>>

Devices == {Inverter} \cup {Meter(i) : i \in 1..mbmeters} \cup {Battery(i) : i \in 1..mbbatteries}

\* fooLabel = Manufacturer + '(' + SerialNumber + ')' of the block read from that device
MeterLabel(i) == Meter(i)
BatteryLabel(i) == Battery(i)

EmptyMap == [k \in {} |-> 0]

Min(a, b) == IF a < b THEN a ELSE b

AllFields(names) == {names[j] : j \in 1..Len(names)}
FirstFields(names) == {names[j] : j \in 1..Min(MaxFields, Len(names))}

\* the dictionary a recipe builds from one block; the values of a reading are
\* represented by the device the block was read from
Reading(fields, dev) == [k \in fields |-> dev]

dictInv == Reading(FirstFields(InvFieldNames), Inverter)
dictM(i) == Reading(FirstFields(MeterFieldNames), Meter(i))
dictB(i) == Reading(FirstFields(BatteryFieldNames), Battery(i))

----------------------------------------------------------------------------
(* publish_metrics *)

\* datapoint['fields'][key] = value, for every key of dictobj
SetFields(dp, dictobj) ==
  [dp EXCEPT !.fields = [k \in DOMAIN dp.fields \cup DOMAIN dictobj |->
                           IF k \in DOMAIN dictobj THEN dictobj[k] ELSE dp.fields[k]]]

\* objtype 'inverter' or 'battery': the gauge is keyed by the unchanged field name
InvGaugeName(key) == key

\* a naming that forgets the legacy flag
MeterGaugeNameNoLegacy(key, meternum, legacy) ==
  Replace(key, <<"M","_">>, <<"M">> \o Str(meternum) \o <<"_">>)

\* objtype 'meter': the gauge name of a field
MeterGaugeName(key, meternum, legacy) ==
  IF meternum = 1 /\ legacy = TRUE
  THEN key
  ELSE Replace(key, <<"M","_">>, <<"M">> \o Str(meternum) \o <<"_">>)

\* a publisher that builds its cache anew on every call
SetGaugesFresh(cache, dictobj, named) ==
  LET names == {p[1] : p \in named}
  IN [n \in names |->
        LET k == (CHOOSE p \in named : p[1] = n)[2]
        IN [val |-> dictobj[k], key |-> k]]

\* for each <<name, key>> of named: cache[name] = Gauge(..) unless cached, then
\* cache[name].set(dictobj[key]); a gauge remembers its value, key is history
\* (the field it was last set from)
SetGauges(cache, dictobj, named) ==
  LET names == {p[1] : p \in named}
  IN [n \in DOMAIN cache \cup names |->
        IF n \in names
        THEN LET k == (CHOOSE p \in named : p[1] = n)[2]
             IN [val |-> dictobj[k], key |-> k]
        ELSE cache[n]]

\* the constructor calls Gauge(name, ..) of one publish_metrics call, counted by name
CreateGauges(registry, cache, names) ==
  LET new == names \ DOMAIN cache
  IN [n \in DOMAIN registry \cup new |->
        IF n \notin new THEN registry[n]
        ELSE IF n \in DOMAIN registry THEN registry[n] + 1
        ELSE 1]

create_inv(registry, cache, dictobj) ==
  CreateGauges(registry, cache, {InvGaugeName(k) : k \in DOMAIN dictobj})

create_meter(registry, cache, dictobj, meternum, legacy) ==
  CreateGauges(registry, cache, {MeterGaugeName(k, meternum, legacy) : k \in DOMAIN dictobj})

publish_inv(cache, dictobj) ==
  SetGauges(cache, dictobj, {<<InvGaugeName(k), k>> : k \in DOMAIN dictobj})

\* a publisher that leaves the meter gauges as they are
publish_meterLater(cache, dictobj, meternum, legacy) == cache

publish_meter(cache, dictobj, meternum, legacy) ==
  SetGauges(cache, dictobj,
            {<<MeterGaugeName(k, meternum, legacy), k>> : k \in DOMAIN dictobj})

----------------------------------------------------------------------------
(* The Modbus client *)

\* a close that leaves the socket as it is
ClientCloseKeepsSocket(sock) == sock

\* client.close()
ClientClose(sock) == "closed"

\* The possible results of client.read_holding_registers(addr, count) on a
\* client with auto_open: res is MB_NO_ERR (a block of count words came back) or the
\* last_error of a failed request, sock the state the library leaves the
\* socket in.  A connect error only happens when the socket has to be opened.
ReadOutcomes(c) ==
  {o \in [res : {MB_NO_ERR} \cup LastErrors, sock : {"open", "closed"}] :
     /\ o.res = MB_NO_ERR => o.sock = "open"
     /\ o.res = MB_CONNECT_ERR => (c = "closed" /\ o.sock = "closed")}

----------------------------------------------------------------------------
(* Positions *)

InfoStages == {"inv_info", "meter_info", "battery_info"}
ReadStages == {"inverter", "meter", "battery"}
WriteStages == {"inverter_write", "meter_write", "battery_write"}
Steady == pc \in ReadStages \cup WriteStages \cup {"sleep"}

\* the device whose telemetry is being read or written
CurDev ==
  IF pc \in {"inverter", "inverter_write"} THEN Inverter
  ELSE IF pc \in {"meter", "meter_write"} THEN Meter(x)
  ELSE Battery(x)

\* a loop that reads the batteries before the meters and then ends the cycle
AfterInverterBatteriesFirst ==
  IF mbbatteries >= 1 THEN [pc |-> "battery", x |-> 1, rpc |-> "req"]
  ELSE IF mbmeters >= 1 THEN [pc |-> "meter", x |-> 1, rpc |-> "req"]
  ELSE [pc |-> "sleep", x |-> x, rpc |-> "idle"]

\* where the steady-state loop goes after it is done with a device
AfterInverter ==
  IF mbmeters >= 1 THEN [pc |-> "meter", x |-> 1, rpc |-> "req"]
  ELSE IF mbbatteries >= 1 THEN [pc |-> "battery", x |-> 1, rpc |-> "req"]
  ELSE [pc |-> "sleep", x |-> x, rpc |-> "idle"]

AfterMeter ==
  IF x < mbmeters THEN [pc |-> "meter", x |-> x + 1, rpc |-> "req"]
  ELSE IF mbbatteries >= 1 THEN [pc |-> "battery", x |-> 1, rpc |-> "req"]
  ELSE [pc |-> "sleep", x |-> x, rpc |-> "idle"]

\* a guard that leaves the meter loop
AfterSkippedMeterBreaks ==
  IF mbbatteries >= 1 THEN [pc |-> "battery", x |-> 1, rpc |-> "req"]
  ELSE [pc |-> "sleep", x |-> x, rpc |-> "idle"]

\* the continue of line 596: on with the next meter
AfterSkippedMeter == AfterMeter

\* a loop that returns after the last battery
AfterBatteryReturns ==
  IF x < mbbatteries THEN [pc |-> "battery", x |-> x + 1, rpc |-> "req"]
  ELSE [pc |-> "terminated", x |-> x, rpc |-> "idle"]

AfterBattery ==
  IF x < mbbatteries THEN [pc |-> "battery", x |-> x + 1, rpc |-> "req"]
  ELSE [pc |-> "sleep", x |-> x, rpc |-> "idle"]

Goto(n) == pc' = n.pc /\ x' = n.x /\ rpc' = n.rpc

----------------------------------------------------------------------------
(* read_regs *)

\* the addr argument of the read_regs call of a stage for device i
ReadAddr(stage, i) ==
  CASE stage = "inv_info"     -> 40004
    [] stage = "meter_info"   -> IF i = 1 THEN 40123 ELSE IF i = 2 THEN 40297 ELSE 40471
    [] stage = "battery_info" -> IF i = 1 THEN 57600 ELSE 57856
    [] stage = "inverter"     -> 40069
    [] stage = "meter"        -> IF i = 1 THEN 40188 ELSE IF i = 2 THEN 40362 ELSE 40537
    [] stage = "battery"      -> IF i = 1 THEN 57666 ELSE 57922

\* requests: calls of client.read_holding_registers; err: the last_error seen
\* after the first of them; recv: increments of modbus_recv_errors; closes:
\* calls of client.close(); sleeps: completed asyncio.sleep(period)
NoCall == [requests |-> 0, err |-> MB_NO_ERR, recv |-> 0, closes |-> 0, sleeps |-> 0]

\* first client.read_holding_registers of a call and the branch on last_error
ReadRequest ==
  /\ rpc = "req"
  /\ \E o \in ReadOutcomes(conn) :
       /\ IF o.res = MB_NO_ERR
          THEN rpc' = "ok" /\ conn' = o.sock /\ connFailed' = FALSE /\ lastLog' = "none"
          ELSE IF o.res = MB_SEND_ERR
          THEN rpc' = "sleep" /\ conn' = ClientClose(o.sock)
               /\ connFailed' = (conn' = "open") /\ lastLog' = "send_error"
          ELSE IF o.res = MB_RECV_ERR
          THEN rpc' = "retry" /\ conn' = o.sock /\ connFailed' = (o.sock = "open")
               /\ lastLog' = "receive_error_retrying"
          ELSE IF o.res = MB_TIMEOUT_ERR
          THEN rpc' = "sleep" /\ conn' = ClientClose(o.sock)
               /\ connFailed' = (conn' = "open") /\ lastLog' = "timeout"
          ELSE rpc' = "sleep" /\ conn' = ClientClose(o.sock)
               /\ connFailed' = (conn' = "open") /\ lastLog' = "unknown_error"
       /\ IF pc = "inverter"
          THEN /\ issued' = {Inverter}
               /\ okRead' = IF o.res = MB_NO_ERR THEN {Inverter} ELSE {}
               /\ published' = {}
               /\ raised' = FALSE
          ELSE IF pc \in ReadStages
          THEN /\ issued' = issued \cup {CurDev}
               /\ okRead' = IF o.res = MB_NO_ERR THEN okRead \cup {CurDev} ELSE okRead
               /\ UNCHANGED <<published, raised>>
          ELSE UNCHANGED histVars
       /\ reads' = reads \cup {<<"issued", pc>>}
                     \cup (IF o.res = MB_NO_ERR THEN {<<"ok", pc>>} ELSE {})
       /\ call' = [requests |-> 1, err |-> o.res,
                   recv |-> IF o.res = MB_RECV_ERR THEN 1 ELSE 0,
                   closes |-> IF o.res \in {MB_NO_ERR, MB_RECV_ERR} THEN 0 ELSE 1,
                   sleeps |-> 0]
  /\ waited' = FALSE
  /\ called' = called \cup {ReadAddr(pc, x)}
  /\ addr' = ReadAddr(pc, x)
  /\ UNCHANGED <<cfgVars, decVars, pc, x, infoVars, sinkVars>>

\* a receive error that is given up without a second request
ReadNoRetry ==
  /\ rpc = "retry"
  /\ rpc' = "sleep" /\ conn' = ClientClose(conn) /\ connFailed' = FALSE
  /\ lastLog' = "receive_error_persisted"
  /\ call' = [call EXCEPT !.closes = @ + 1]
  /\ UNCHANGED <<cfgVars, decVars, reads, waited, called, pc, x, infoVars, addr, sinkVars, histVars>>

\* the single retry after a receive error
ReadRetry ==
  /\ rpc = "retry"
  /\ \E o \in ReadOutcomes(conn) :
       /\ IF o.res = MB_NO_ERR
          THEN rpc' = "ok" /\ conn' = o.sock /\ connFailed' = FALSE /\ lastLog' = "none"
          ELSE rpc' = "sleep" /\ conn' = ClientClose(o.sock)
               /\ connFailed' = (conn' = "open") /\ lastLog' = "receive_error_persisted"
       /\ okRead' = IF o.res = MB_NO_ERR /\ pc \in ReadStages THEN okRead \cup {CurDev} ELSE okRead
       /\ reads' = reads \cup {<<"issued", pc>>}
                     \cup (IF o.res = MB_NO_ERR THEN {<<"ok", pc>>} ELSE {})
       /\ call' = [call EXCEPT !.requests = @ + 1,
                               !.closes = IF o.res = MB_NO_ERR THEN @ ELSE @ + 1]
  /\ waited' = FALSE
  /\ called' = called
  /\ addr' = ReadAddr(pc, x)
  /\ UNCHANGED <<cfgVars, decVars, pc, x, infoVars, sinkVars, issued, published, raised>>

\* a failed call that returns None without sleeping
ReadReturnsAtOnce ==
  /\ rpc = "sleep"
  /\ rpc' = "fail"
  /\ lastLog' = "none"
  /\ UNCHANGED <<cfgVars, decVars, reads, waited, called, pc, x, infoVars, conn, connFailed, addr, call, sinkVars, histVars>>

\* await asyncio.sleep(period); return None
ReadSleep ==
  /\ rpc = "sleep"
  /\ rpc' = "fail"
  /\ lastLog' = "none"
  /\ waited' = TRUE
  /\ called' = {}
  /\ call' = [call EXCEPT !.sleeps = @ + 1]
  /\ UNCHANGED <<cfgVars, decVars, reads, pc, x, infoVars, conn, connFailed, addr, sinkVars, histVars>>

----------------------------------------------------------------------------
(* Identification stages *)

\* a stage selection that does not look at the device counts
EnterMeterInfoAnyCount ==
  /\ connflag' = FALSE
  /\ battflag' = FALSE
  /\ dictMeterLabel' = <<>>
  /\ dictBattery' = <<>>
  /\ pc' = "meter_info" /\ x' = 1
  /\ rpc' = "req"

\* lines 169-170 and 209-210: which stage follows the inverter identification
EnterMeterInfo ==
  /\ connflag' = FALSE
  /\ battflag' = FALSE
  /\ dictMeterLabel' = <<>>
  /\ dictBattery' = <<>>
  /\ IF mbmeters >= 1 THEN pc' = "meter_info" /\ x' = 1
     ELSE IF mbbatteries >= 1 THEN pc' = "battery_info" /\ x' = 1
     ELSE pc' = "inverter" /\ x' = x
  /\ rpc' = "req"

\* lines 144-166: the continuation of the inverter identification read
InvInfo ==
  /\ pc = "inv_info" /\ rpc \in {"ok", "fail"}
  /\ IF rpc = "fail"
     THEN /\ rpc' = "req" /\ lastLog' = "none"
          /\ UNCHANGED <<pc, x, infoVars>>
     ELSE \E decoded \in BOOLEAN :
            IF decoded
            THEN EnterMeterInfo /\ lastLog' = "none"
            ELSE \* decode_string(..).decode('UTF-8') raises outside any try
                 /\ pc' = "terminated" /\ rpc' = "idle" /\ lastLog' = "traceback"
                 /\ UNCHANGED <<x, infoVars>>
  /\ reads' = IF pc' = pc THEN reads ELSE reads \cup {<<"exit", pc>>}
  /\ call' = NoCall
  /\ UNCHANGED <<cfgVars, decVars, waited, called, conn, connFailed, addr, sinkVars, histVars>>

\* lines 171-206: the continuation of one meter identification read
MeterInfo ==
  /\ pc = "meter_info" /\ rpc \in {"ok", "fail"}
  /\ \E decoded \in BOOLEAN :
       IF rpc = "ok" /\ ~decoded
       THEN /\ pc' = "terminated" /\ rpc' = "idle" /\ lastLog' = "traceback"
            /\ UNCHANGED <<x, infoVars>>
       ELSE LET labels == IF rpc = "ok" THEN Append(dictMeterLabel, MeterLabel(x))
                          ELSE dictMeterLabel
                flag == IF rpc = "ok" THEN TRUE ELSE connflag
            IN /\ lastLog' = "none"
               /\ connflag' = flag
               /\ UNCHANGED <<battflag, dictBattery>>
               /\ IF x < mbmeters
                  THEN /\ dictMeterLabel' = labels
                       /\ pc' = pc /\ x' = x + 1 /\ rpc' = "req"
                  ELSE IF flag
                  THEN /\ dictMeterLabel' = labels
                       /\ IF mbbatteries >= 1 THEN pc' = "battery_info" /\ x' = 1
                          ELSE pc' = "inverter" /\ x' = x
                       /\ rpc' = "req"
                  ELSE /\ dictMeterLabel' = <<>>
                       /\ pc' = pc /\ x' = 1 /\ rpc' = "req"
  /\ reads' = IF pc' = pc THEN reads ELSE reads \cup {<<"exit", pc>>}
  /\ call' = NoCall
  /\ UNCHANGED <<cfgVars, decVars, waited, called, conn, connFailed, addr, sinkVars, histVars>>

\* lines 211-254: the continuation of one battery identification read
BatteryInfo ==
  /\ pc = "battery_info" /\ rpc \in {"ok", "fail"}
  /\ \E decoded \in BOOLEAN :
       IF rpc = "ok" /\ ~decoded
       THEN /\ pc' = "terminated" /\ rpc' = "idle" /\ lastLog' = "traceback"
            /\ UNCHANGED <<x, infoVars>>
       ELSE LET labels == IF rpc = "ok" THEN Append(dictBattery, BatteryLabel(x))
                          ELSE dictBattery
                flag == IF rpc = "ok" THEN TRUE ELSE connflag
            IN /\ lastLog' = "none"
               /\ connflag' = flag
               /\ UNCHANGED <<battflag, dictMeterLabel>>
               /\ IF x < mbbatteries
                  THEN /\ dictBattery' = labels
                       /\ pc' = pc /\ x' = x + 1 /\ rpc' = "req"
                  ELSE IF flag
                  THEN /\ dictBattery' = labels
                       /\ pc' = "inverter" /\ x' = x /\ rpc' = "req"
                  ELSE /\ dictBattery' = <<>>
                       /\ pc' = pc /\ x' = 1 /\ rpc' = "req"
  /\ reads' = IF pc' = pc THEN reads ELSE reads \cup {<<"exit", pc>>}
  /\ call' = NoCall
  /\ UNCHANGED <<cfgVars, decVars, waited, called, conn, connFailed, addr, sinkVars, histVars>>

----------------------------------------------------------------------------
(* Steady state *)

\* a handler that goes on with the next cycle without sleeping
AfterExceptionNoSleep == [pc |-> "inverter", x |-> x, rpc |-> "req"]

\* lines 1193-1200: every exception raised inside the try is logged, then the
\* loop sleeps one period and starts the next cycle
AfterException == [pc |-> "sleep", x |-> x, rpc |-> "idle"]


\* lines 261-578: the continuation of the inverter telemetry read
InverterStep ==
  /\ pc = "inverter" /\ rpc \in {"ok", "fail"}
  /\ IF rpc = "fail"
     THEN \* else: continue (line 578) restarts the while loop
          /\ pc' = "inverter" /\ rpc' = "req" /\ lastLog' = "none"
          /\ UNCHANGED <<x, sinkVars, histVars>>
     ELSE LET fresh == [measurement |-> <<"Inverter", 0>>, fields |-> EmptyMap]
          IN \E decoded \in BOOLEAN :
               IF decoded
               THEN   /\ promInv' = publish_inv(promInv, dictInv)
                      /\ created' = create_inv(created, promInv, dictInv)
                      /\ datapoint' = SetFields(fresh, dictInv)
                      /\ published' = published \cup {Inverter}
                      /\ pc' = "inverter_write" /\ rpc' = "idle" /\ lastLog' = "none"
                      /\ UNCHANGED <<x, promMeter, influx, issued, okRead, raised>>
               ELSE \* fooVal * scalefactor overflows for a large scale factor
                    /\ datapoint' = fresh
                    /\ raised' = TRUE
                    /\ Goto(AfterException) /\ lastLog' = "unhandled_OverflowError"
                    /\ UNCHANGED <<promInv, promMeter, influx, created, issued, okRead, published>>
  /\ call' = NoCall
  /\ UNCHANGED <<cfgVars, decVars, reads, waited, called, infoVars, conn, connFailed, addr>>

\* lines 580-996: the continuation of the telemetry read of meter x
MeterStep ==
  /\ pc = "meter" /\ rpc \in {"ok", "fail"}
  /\ IF dictMeterLabel = <<>> \/ Len(dictMeterLabel) < x
     THEN /\ Goto(AfterSkippedMeter) /\ lastLog' = "meter_labels_not_initialized"
          /\ UNCHANGED <<sinkVars, histVars>>
     ELSE IF rpc = "fail"
     THEN /\ Goto(AfterMeter) /\ lastLog' = "none"
          /\ UNCHANGED <<sinkVars, histVars>>
     ELSE LET fresh == [measurement |-> dictMeterLabel[x], fields |-> EmptyMap]
          IN \E decoded \in BOOLEAN :
               IF decoded
               THEN   /\ promMeter' = publish_meter(promMeter, dictM(x), x, legacysupport)
                      /\ created' = create_meter(created, promMeter, dictM(x), x, legacysupport)
                      /\ datapoint' = SetFields(fresh, dictM(x))
                      /\ published' = published \cup {Meter(x)}
                      /\ pc' = "meter_write" /\ rpc' = "idle" /\ lastLog' = "none"
                      /\ UNCHANGED <<x, promInv, influx, issued, okRead, raised>>
               ELSE /\ datapoint' = fresh
                    /\ raised' = TRUE
                    /\ Goto(AfterException) /\ lastLog' = "unhandled_OverflowError"
                    /\ UNCHANGED <<promInv, promMeter, influx, created, issued, okRead, published>>
  /\ call' = NoCall
  /\ UNCHANGED <<cfgVars, decVars, reads, waited, called, infoVars, conn, connFailed, addr>>

\* lines 998-1191: the continuation of the telemetry read of battery x
BatteryStep ==
  /\ pc = "battery" /\ rpc \in {"ok", "fail"}
  /\ IF rpc = "fail"
     THEN /\ Goto(AfterBattery) /\ lastLog' = "none"
          /\ UNCHANGED <<sinkVars, histVars>>
     ELSE IF Len(dictBattery) < x
     THEN \* dictBattery[x-1] raises IndexError (line 1060)
          /\ raised' = TRUE
          /\ Goto(AfterException) /\ lastLog' = "unhandled_IndexError"
          /\ UNCHANGED <<sinkVars, issued, okRead, published>>
     ELSE LET fresh == [measurement |-> dictBattery[x], fields |-> EmptyMap]
          IN   /\ promInv' = publish_inv(promInv, dictB(x))
               /\ created' = create_inv(created, promInv, dictB(x))
               /\ datapoint' = SetFields(fresh, dictB(x))
               /\ published' = published \cup {Battery(x)}
               /\ pc' = "battery_write" /\ rpc' = "idle" /\ lastLog' = "none"
               /\ UNCHANGED <<x, promMeter, influx, issued, okRead, raised>>
  /\ call' = NoCall
  /\ UNCHANGED <<cfgVars, decVars, reads, waited, called, infoVars, conn, connFailed, addr>>

\* await solar_client.write(datapoint) of the device just published
Write ==
  /\ pc \in WriteStages
  /\ \E accepted \in BOOLEAN :
       IF accepted
       THEN /\ influx' = datapoint
            /\ Goto(IF pc = "inverter_write" THEN AfterInverter
                    ELSE IF pc = "meter_write" THEN AfterMeter
                    ELSE AfterBattery)
            /\ lastLog' = "wrote_datapoint"
            /\ UNCHANGED raised
       ELSE /\ influx' = influx
            /\ raised' = TRUE
            /\ Goto(AfterException) /\ lastLog' = "failed_to_write"
  /\ UNCHANGED <<cfgVars, decVars, reads, waited, called, infoVars, conn, connFailed, addr, call, datapoint, promInv, promMeter, created,
                 issued, okRead, published>>

\* a loop that starts the next cycle without sleeping
SleepSkipped ==
  /\ pc = "sleep"
  /\ pc' = "inverter" /\ rpc' = "req" /\ lastLog' = "none"
  /\ UNCHANGED <<cfgVars, decVars, reads, waited, called, x, infoVars, conn, connFailed, addr, call, sinkVars, histVars>>

\* line 1200: await asyncio.sleep(period), then the top of the while loop
Sleep ==
  /\ pc = "sleep"
  /\ pc' = "inverter" /\ rpc' = "req" /\ lastLog' = "none"
  /\ waited' = TRUE
  /\ called' = {}
  /\ UNCHANGED <<cfgVars, decVars, reads, x, infoVars, conn, connFailed, addr, call, sinkVars, histVars>>

----------------------------------------------------------------------------
(***************************************************************************)
(* Decoding a register block.  A block is a list of 16-bit words; the      *)
(* payload decoder walks it with a byte pointer.  A decoded number is      *)
(* sign, magnitude hi*65536 + lo, and decimal exponent e: the value        *)
(* magnitude * 10^e.  Floats are taken as exact decimals; binary rounding  *)
(* of a product is not modelled.                                           *)
(***************************************************************************)
Num(neg, hi, lo, e) == [neg |-> neg, hi |-> hi, lo |-> lo, e |-> e]

Zero == Num(FALSE, 0, 0, 0)

IsZero(d) == d.hi = 0 /\ d.lo = 0

Mod10(d) == ((d.hi % 10) * 65536 + d.lo) % 10

Div10(d) == [d EXCEPT !.hi = d.hi \div 10, !.lo = ((d.hi % 10) * 65536 + d.lo) \div 10]

Inc(d) == IF d.lo = 65535 THEN [d EXCEPT !.hi = @ + 1, !.lo = 0] ELSE [d EXCEPT !.lo = @ + 1]

\* one representation per value: no trailing zero behind the decimal point, one zero
RECURSIVE Norm(_)
Norm(d) ==
  IF IsZero(d) THEN Zero
  ELSE IF d.e < 0 /\ Mod10(d) = 0 THEN Norm([Div10(d) EXCEPT !.e = d.e + 1])
  ELSE d

RECURSIVE DropDigits(_, _)
DropDigits(d, k) == IF k = 0 \/ IsZero(d) THEN d ELSE DropDigits(Div10(d), k - 1)

\* float('%.2f' % floatval): two decimals, the dropped digits rounded
trunc_float(floatval) ==
  IF floatval.e >= -2 THEN floatval
  ELSE LET t == DropDigits(floatval, (-3) - floatval.e)
           q == IF Mod10(t) >= 5 THEN Inc(Div10(t)) ELSE Div10(t)
       IN  Norm([q EXCEPT !.e = -2])

\* 10**e of an integer e is an int for e >= 0 and a float for e < 0; the
\* model keeps the exponent.  float * int fails when the int has no float.
MaxFloatExp == 308
MinFloatExp == -323

Overflows(e) == e > MaxFloatExp

Times(fooVal, e) ==
  IF e < MinFloatExp THEN Zero ELSE Norm([fooVal EXCEPT !.e = fooVal.e + e])

\* fooVal < 65535, fooVal < 32768, fooVal < 4294967295 on an integer value
Threshold(sentinel) ==
  IF Len(sentinel) = 1 THEN Num(FALSE, 0, sentinel[1], 0)
  ELSE Num(FALSE, sentinel[1], sentinel[2], 0)

BelowOrAt(fooVal, sentinel) ==
  LET t == Threshold(sentinel)
  IN  fooVal.neg \/ fooVal.hi < t.hi \/ (fooVal.hi = t.hi /\ fooVal.lo <= t.lo)

Below(fooVal, sentinel) ==
  LET t == Threshold(sentinel)
  IN  fooVal.neg \/ fooVal.hi < t.hi \/ (fooVal.hi = t.hi /\ fooVal.lo < t.lo)

\* BinaryPayloadDecoder.fromRegisters(reg_block, byteorder=..., wordorder=...)
Decoder(stage) ==
  [byteorder |-> "big",
   wordorder |-> IF stage \in {"battery_info", "battery"} THEN "little" ELSE "big",
   pointer |-> 0]

RECURSIVE Reverse(_)
Reverse(s) == IF s = <<>> THEN <<>> ELSE Append(Reverse(Tail(s)), Head(s))

SwapBytes(w) == (w % 256) * 256 + (w \div 256)

\* the words of one value as the decoder sees them
UnpackWordsIgnoringOrder(ws, dec) ==
  [j \in 1..Len(ws) |-> IF dec.byteorder = "little" THEN SwapBytes(ws[j]) ELSE ws[j]]

UnpackWords(ws, dec) ==
  LET o == IF dec.wordorder = "little" THEN Reverse(ws) ELSE ws
  IN  [j \in 1..Len(o) |-> IF dec.byteorder = "little" THEN SwapBytes(o[j]) ELSE o[j]]

decode_16bit_uint(w) == Num(FALSE, 0, w, 0)

\* a signed read that returns the word as it is
decode_16bit_intUnsigned(w) == Num(FALSE, 0, w, 0)

decode_16bit_int(w) == IF w >= 32768 THEN Num(TRUE, 0, 65536 - w, 0) ELSE Num(FALSE, 0, w, 0)

decode_32bit_uint(ws) == Num(FALSE, ws[1], ws[2], 0)

decode_32bit_float(ws) == [f32 |-> ws]

decode_64bit_uint(ws) == [u64 |-> ws]

Decode(bits, type, ws, dec) ==
  LET u == UnpackWords(ws, dec)
  IN  CASE bits = 16 /\ type = "uint"  -> decode_16bit_uint(u[1])
        [] bits = 16 /\ type = "int"   -> decode_16bit_int(u[1])
        [] bits = 32 /\ type = "uint"  -> decode_32bit_uint(u)
        [] bits = 32 /\ type = "float" -> decode_32bit_float(u)
        [] bits = 64 /\ type = "uint"  -> decode_64bit_uint(u)

\* the exponent of 10**data.decode_16bit_int() or 10**data.decode_16bit_uint()
Exponent(type, w) == IF type = "int" /\ w >= 32768 THEN w - 65536 ELSE w

\* bytes.decode('UTF-8') succeeds
RECURSIVE ValidUTF8(_)
ValidUTF8(b) ==
  IF b = <<>> THEN TRUE
  ELSE LET h == b[1]
           n == IF h < 128 THEN 1
                ELSE IF h \in 194..223 THEN 2
                ELSE IF h \in 224..239 THEN 3
                ELSE IF h \in 240..244 THEN 4
                ELSE 0
           lo == IF h = 224 THEN 160 ELSE IF h = 240 THEN 144 ELSE 128
           hi == IF h = 237 THEN 159 ELSE IF h = 244 THEN 143 ELSE 191
       IN  /\ n > 0
           /\ Len(b) >= n
           /\ (n >= 2 => b[2] \in lo..hi)
           /\ \A j \in 3..n : b[j] \in 128..191
           /\ ValidUTF8(SubSeq(b, n + 1, Len(b)))

Bytes(ws) == [j \in 1..(2 * Len(ws)) |-> IF j % 2 = 1 THEN ws[(j + 1) \div 2] \div 256
                                                       ELSE ws[j \div 2] % 256]

Put(f, k, v) == [j \in DOMAIN f \cup {k} |-> IF j = k THEN v ELSE f[j]]

InvInfoRecipe ==
  <<
     [op |-> "str", n |-> 32],
     [op |-> "str", n |-> 32],
     [op |-> "str", n |-> 16],
     [op |-> "str", n |-> 16],
     [op |-> "str", n |-> 32],
     [op |-> "val", name |-> <<"I","n","v","D","e","v","i","c","e","A","d","d","r","e","s","s">>, bits |-> 16, type |-> "uint", trunc |-> FALSE, sentinel |-> <<>>, scaled |-> FALSE]
  >>

MeterInfoRecipe ==
  <<
     [op |-> "str", n |-> 32],
     [op |-> "str", n |-> 32],
     [op |-> "str", n |-> 16],
     [op |-> "str", n |-> 16],
     [op |-> "str", n |-> 32],
     [op |-> "val", name |-> <<"M","D","e","v","i","c","e","A","d","d","r","e","s","s">>, bits |-> 16, type |-> "uint", trunc |-> FALSE, sentinel |-> <<>>, scaled |-> FALSE]
  >>

BatteryInfoRecipe ==
  <<
     [op |-> "str", n |-> 32],
     [op |-> "str", n |-> 32],
     [op |-> "str", n |-> 32],
     [op |-> "str", n |-> 32],
     [op |-> "val", name |-> <<"B","D","e","v","i","c","e","A","d","d","r","e","s","s">>, bits |-> 16, type |-> "uint", trunc |-> FALSE, sentinel |-> <<>>, scaled |-> FALSE],
     [op |-> "skip", n |-> 2],
     [op |-> "val", name |-> <<"B","R","a","t","e","d","E","n","e","r","g","y">>, bits |-> 32, type |-> "float", trunc |-> FALSE, sentinel |-> <<>>, scaled |-> FALSE],
     [op |-> "val", name |-> <<"B","M","a","x","C","h","a","r","g","e","P","o","w","e","r">>, bits |-> 32, type |-> "float", trunc |-> FALSE, sentinel |-> <<>>, scaled |-> FALSE],
     [op |-> "val", name |-> <<"B","M","a","x","D","i","s","c","h","a","r","g","e","P","o","w","e","r">>, bits |-> 32, type |-> "float", trunc |-> FALSE, sentinel |-> <<>>, scaled |-> FALSE],
     [op |-> "val", name |-> <<"B","M","a","x","C","h","a","r","g","e","P","e","a","k","P","o","w","e","r">>, bits |-> 32, type |-> "float", trunc |-> FALSE, sentinel |-> <<>>, scaled |-> FALSE],
     [op |-> "val", name |-> <<"B","M","a","x","D","i","s","c","h","a","r","g","e","P","e","a","k","P","o","w","e","r">>, bits |-> 32, type |-> "float", trunc |-> FALSE, sentinel |-> <<>>, scaled |-> FALSE]
  >>

InverterRecipe ==
  <<
     [op |-> "val", name |-> InvFieldNames[1], bits |-> 16, type |-> "uint", trunc |-> TRUE, sentinel |-> <<65535>>, scaled |-> FALSE],   \* SunSpec_DID
     [op |-> "val", name |-> InvFieldNames[2], bits |-> 16, type |-> "uint", trunc |-> TRUE, sentinel |-> <<65535>>, scaled |-> FALSE],   \* SunSpec_Length
     [op |-> "skip", n |-> 8],
     [op |-> "sf", type |-> "int"],
     [op |-> "skip", n |-> -10],
     [op |-> "val", name |-> InvFieldNames[3], bits |-> 16, type |-> "uint", trunc |-> TRUE, sentinel |-> <<65535>>, scaled |-> TRUE],   \* AC_Current
     [op |-> "val", name |-> InvFieldNames[4], bits |-> 16, type |-> "uint", trunc |-> TRUE, sentinel |-> <<65535>>, scaled |-> TRUE],   \* AC_CurrentA
     [op |-> "val", name |-> InvFieldNames[5], bits |-> 16, type |-> "uint", trunc |-> TRUE, sentinel |-> <<65535>>, scaled |-> TRUE],   \* AC_CurrentB
     [op |-> "val", name |-> InvFieldNames[6], bits |-> 16, type |-> "uint", trunc |-> TRUE, sentinel |-> <<65535>>, scaled |-> TRUE],   \* AC_CurrentC
     [op |-> "skip", n |-> 14],
     [op |-> "sf", type |-> "int"],
     [op |-> "skip", n |-> -14],
     [op |-> "val", name |-> InvFieldNames[7], bits |-> 16, type |-> "uint", trunc |-> TRUE, sentinel |-> <<65535>>, scaled |-> TRUE],   \* AC_VoltageAB
     [op |-> "val", name |-> InvFieldNames[8], bits |-> 16, type |-> "uint", trunc |-> TRUE, sentinel |-> <<65535>>, scaled |-> TRUE],   \* AC_VoltageBC
     [op |-> "val", name |-> InvFieldNames[9], bits |-> 16, type |-> "uint", trunc |-> TRUE, sentinel |-> <<65535>>, scaled |-> TRUE],   \* AC_VoltageCA
     [op |-> "val", name |-> InvFieldNames[10], bits |-> 16, type |-> "uint", trunc |-> TRUE, sentinel |-> <<65535>>, scaled |-> TRUE],   \* AC_VoltageAN
     [op |-> "val", name |-> InvFieldNames[11], bits |-> 16, type |-> "uint", trunc |-> TRUE, sentinel |-> <<65535>>, scaled |-> TRUE],   \* AC_VoltageBN
     [op |-> "val", name |-> InvFieldNames[12], bits |-> 16, type |-> "uint", trunc |-> TRUE, sentinel |-> <<65535>>, scaled |-> TRUE],   \* AC_VoltageCN
     [op |-> "skip", n |-> 4],
     [op |-> "sf", type |-> "int"],
     [op |-> "skip", n |-> -4],
     [op |-> "val", name |-> InvFieldNames[13], bits |-> 16, type |-> "int", trunc |-> TRUE, sentinel |-> <<65535>>, scaled |-> TRUE],   \* AC_Power
     [op |-> "skip", n |-> 4],
     [op |-> "sf", type |-> "int"],
     [op |-> "skip", n |-> -4],
     [op |-> "val", name |-> InvFieldNames[14], bits |-> 16, type |-> "uint", trunc |-> TRUE, sentinel |-> <<65535>>, scaled |-> TRUE],   \* AC_Frequency
     [op |-> "skip", n |-> 4],
     [op |-> "sf", type |-> "int"],
     [op |-> "skip", n |-> -4],
     [op |-> "val", name |-> InvFieldNames[15], bits |-> 16, type |-> "int", trunc |-> TRUE, sentinel |-> <<65535>>, scaled |-> TRUE],   \* AC_VA
     [op |-> "skip", n |-> 4],
     [op |-> "sf", type |-> "int"],
     [op |-> "skip", n |-> -4],
     [op |-> "val", name |-> InvFieldNames[16], bits |-> 16, type |-> "int", trunc |-> TRUE, sentinel |-> <<65535>>, scaled |-> TRUE],   \* AC_VAR
     [op |-> "skip", n |-> 4],
     [op |-> "sf", type |-> "int"],
     [op |-> "skip", n |-> -4],
     [op |-> "val", name |-> InvFieldNames[17], bits |-> 16, type |-> "int", trunc |-> TRUE, sentinel |-> <<65535>>, scaled |-> TRUE],   \* AC_PF
     [op |-> "skip", n |-> 6],
     [op |-> "sf", type |-> "uint"],
     [op |-> "skip", n |-> -6],
     [op |-> "val", name |-> InvFieldNames[18], bits |-> 32, type |-> "uint", trunc |-> TRUE, sentinel |-> <<65535, 65535>>, scaled |-> TRUE],   \* AC_Energy_WH
     [op |-> "skip", n |-> 4],
     [op |-> "sf", type |-> "int"],
     [op |-> "skip", n |-> -4],
     [op |-> "val", name |-> InvFieldNames[19], bits |-> 16, type |-> "uint", trunc |-> TRUE, sentinel |-> <<65535>>, scaled |-> TRUE],   \* DC_Current
     [op |-> "skip", n |-> 4],
     [op |-> "sf", type |-> "int"],
     [op |-> "skip", n |-> -4],
     [op |-> "val", name |-> InvFieldNames[20], bits |-> 16, type |-> "uint", trunc |-> TRUE, sentinel |-> <<65535>>, scaled |-> TRUE],   \* DC_Voltage
     [op |-> "skip", n |-> 4],
     [op |-> "sf", type |-> "int"],
     [op |-> "skip", n |-> -4],
     [op |-> "val", name |-> InvFieldNames[21], bits |-> 16, type |-> "int", trunc |-> TRUE, sentinel |-> <<65535>>, scaled |-> TRUE],   \* DC_Power
     [op |-> "skip", n |-> 10],
     [op |-> "sf", type |-> "int"],
     [op |-> "skip", n |-> -8],
     [op |-> "val", name |-> InvFieldNames[22], bits |-> 16, type |-> "int", trunc |-> TRUE, sentinel |-> <<65535>>, scaled |-> TRUE],   \* Temp_Sink
     [op |-> "skip", n |-> 6],
     [op |-> "val", name |-> InvFieldNames[23], bits |-> 16, type |-> "uint", trunc |-> TRUE, sentinel |-> <<65535>>, scaled |-> FALSE],   \* Status
     [op |-> "val", name |-> InvFieldNames[24], bits |-> 16, type |-> "uint", trunc |-> TRUE, sentinel |-> <<65535>>, scaled |-> FALSE],   \* Status_Vendor
     [op |-> "const", name |-> InvFieldNames[25]],   \* AC_Current_SF
     [op |-> "const", name |-> InvFieldNames[26]],   \* AC_Voltage_SF
     [op |-> "const", name |-> InvFieldNames[27]],   \* AC_Power_SF
     [op |-> "const", name |-> InvFieldNames[28]],   \* AC_Frequency_SF
     [op |-> "const", name |-> InvFieldNames[29]],   \* AC_VA_SF
     [op |-> "const", name |-> InvFieldNames[30]],   \* AC_VAR_SF
     [op |-> "const", name |-> InvFieldNames[31]],   \* AC_PF_SF
     [op |-> "const", name |-> InvFieldNames[32]],   \* AC_Energy_WH_SF
     [op |-> "const", name |-> InvFieldNames[33]],   \* DC_Current_SF
     [op |-> "const", name |-> InvFieldNames[34]],   \* DC_Voltage_SF
     [op |-> "const", name |-> InvFieldNames[35]],   \* DC_Power_SF
     [op |-> "const", name |-> InvFieldNames[36]]   \* Temp_SF
  >>

MeterRecipe ==
  <<
     [op |-> "val", name |-> MeterFieldNames[1], bits |-> 16, type |-> "uint", trunc |-> TRUE, sentinel |-> <<65535>>, scaled |-> FALSE],   \* M_SunSpec_DID
     [op |-> "val", name |-> MeterFieldNames[2], bits |-> 16, type |-> "uint", trunc |-> TRUE, sentinel |-> <<65535>>, scaled |-> FALSE],   \* M_SunSpec_Length
     [op |-> "skip", n |-> 8],
     [op |-> "sf", type |-> "int"],
     [op |-> "skip", n |-> -10],
     [op |-> "val", name |-> MeterFieldNames[3], bits |-> 16, type |-> "int", trunc |-> TRUE, sentinel |-> <<32768>>, scaled |-> TRUE],   \* M_AC_Current
     [op |-> "val", name |-> MeterFieldNames[4], bits |-> 16, type |-> "int", trunc |-> TRUE, sentinel |-> <<32768>>, scaled |-> TRUE],   \* M_AC_CurrentA
     [op |-> "val", name |-> MeterFieldNames[5], bits |-> 16, type |-> "int", trunc |-> TRUE, sentinel |-> <<32768>>, scaled |-> TRUE],   \* M_AC_CurrentB
     [op |-> "val", name |-> MeterFieldNames[6], bits |-> 16, type |-> "int", trunc |-> TRUE, sentinel |-> <<32768>>, scaled |-> TRUE],   \* M_AC_CurrentC
     [op |-> "skip", n |-> 18],
     [op |-> "sf", type |-> "int"],
     [op |-> "skip", n |-> -18],
     [op |-> "val", name |-> MeterFieldNames[7], bits |-> 16, type |-> "int", trunc |-> TRUE, sentinel |-> <<32768>>, scaled |-> TRUE],   \* M_AC_VoltageLN
     [op |-> "val", name |-> MeterFieldNames[8], bits |-> 16, type |-> "int", trunc |-> TRUE, sentinel |-> <<32768>>, scaled |-> TRUE],   \* M_AC_VoltageAN
     [op |-> "val", name |-> MeterFieldNames[9], bits |-> 16, type |-> "int", trunc |-> TRUE, sentinel |-> <<32768>>, scaled |-> TRUE],   \* M_AC_VoltageBN
     [op |-> "val", name |-> MeterFieldNames[10], bits |-> 16, type |-> "int", trunc |-> TRUE, sentinel |-> <<32768>>, scaled |-> TRUE],   \* M_AC_VoltageCN
     [op |-> "val", name |-> MeterFieldNames[11], bits |-> 16, type |-> "int", trunc |-> TRUE, sentinel |-> <<32768>>, scaled |-> TRUE],   \* M_AC_VoltageLL
     [op |-> "val", name |-> MeterFieldNames[12], bits |-> 16, type |-> "int", trunc |-> TRUE, sentinel |-> <<32768>>, scaled |-> TRUE],   \* M_AC_VoltageAB
     [op |-> "val", name |-> MeterFieldNames[13], bits |-> 16, type |-> "int", trunc |-> TRUE, sentinel |-> <<32768>>, scaled |-> TRUE],   \* M_AC_VoltageBC
     [op |-> "val", name |-> MeterFieldNames[14], bits |-> 16, type |-> "int", trunc |-> TRUE, sentinel |-> <<32768>>, scaled |-> TRUE],   \* M_AC_VoltageCA
     [op |-> "skip", n |-> 4],
     [op |-> "sf", type |-> "int"],
     [op |-> "skip", n |-> -4],
     [op |-> "val", name |-> MeterFieldNames[15], bits |-> 16, type |-> "int", trunc |-> TRUE, sentinel |-> <<32768>>, scaled |-> TRUE],   \* M_AC_Frequency
     [op |-> "skip", n |-> 10],
     [op |-> "sf", type |-> "int"],
     [op |-> "skip", n |-> -10],
     [op |-> "val", name |-> MeterFieldNames[16], bits |-> 16, type |-> "int", trunc |-> TRUE, sentinel |-> <<32768>>, scaled |-> TRUE],   \* M_AC_Power
     [op |-> "val", name |-> MeterFieldNames[17], bits |-> 16, type |-> "int", trunc |-> TRUE, sentinel |-> <<32768>>, scaled |-> TRUE],   \* M_AC_Power_A
     [op |-> "val", name |-> MeterFieldNames[18], bits |-> 16, type |-> "int", trunc |-> TRUE, sentinel |-> <<32768>>, scaled |-> TRUE],   \* M_AC_Power_B
     [op |-> "val", name |-> MeterFieldNames[19], bits |-> 16, type |-> "int", trunc |-> TRUE, sentinel |-> <<32768>>, scaled |-> TRUE],   \* M_AC_Power_C
     [op |-> "skip", n |-> 10],
     [op |-> "sf", type |-> "int"],
     [op |-> "skip", n |-> -10],
     [op |-> "val", name |-> MeterFieldNames[20], bits |-> 16, type |-> "int", trunc |-> TRUE, sentinel |-> <<32768>>, scaled |-> TRUE],   \* M_AC_VA
     [op |-> "val", name |-> MeterFieldNames[21], bits |-> 16, type |-> "int", trunc |-> TRUE, sentinel |-> <<32768>>, scaled |-> TRUE],   \* M_AC_VA_A
     [op |-> "val", name |-> MeterFieldNames[22], bits |-> 16, type |-> "int", trunc |-> TRUE, sentinel |-> <<32768>>, scaled |-> TRUE],   \* M_AC_VA_B
     [op |-> "val", name |-> MeterFieldNames[23], bits |-> 16, type |-> "int", trunc |-> TRUE, sentinel |-> <<32768>>, scaled |-> TRUE],   \* M_AC_VA_C
     [op |-> "skip", n |-> 10],
     [op |-> "sf", type |-> "int"],
     [op |-> "skip", n |-> -10],
     [op |-> "val", name |-> MeterFieldNames[24], bits |-> 16, type |-> "int", trunc |-> TRUE, sentinel |-> <<32768>>, scaled |-> TRUE],   \* M_AC_VAR
     [op |-> "val", name |-> MeterFieldNames[25], bits |-> 16, type |-> "int", trunc |-> TRUE, sentinel |-> <<32768>>, scaled |-> TRUE],   \* M_AC_VAR_A
     [op |-> "val", name |-> MeterFieldNames[26], bits |-> 16, type |-> "int", trunc |-> TRUE, sentinel |-> <<32768>>, scaled |-> TRUE],   \* M_AC_VAR_B
     [op |-> "val", name |-> MeterFieldNames[27], bits |-> 16, type |-> "int", trunc |-> TRUE, sentinel |-> <<32768>>, scaled |-> TRUE],   \* M_AC_VAR_C
     [op |-> "skip", n |-> 10],
     [op |-> "sf", type |-> "int"],
     [op |-> "skip", n |-> -10],
     [op |-> "val", name |-> MeterFieldNames[28], bits |-> 16, type |-> "int", trunc |-> TRUE, sentinel |-> <<32768>>, scaled |-> TRUE],   \* M_AC_PF
     [op |-> "val", name |-> MeterFieldNames[29], bits |-> 16, type |-> "int", trunc |-> TRUE, sentinel |-> <<32768>>, scaled |-> TRUE],   \* M_AC_PF_A
     [op |-> "val", name |-> MeterFieldNames[30], bits |-> 16, type |-> "int", trunc |-> TRUE, sentinel |-> <<32768>>, scaled |-> TRUE],   \* M_AC_PF_B
     [op |-> "val", name |-> MeterFieldNames[31], bits |-> 16, type |-> "int", trunc |-> TRUE, sentinel |-> <<32768>>, scaled |-> TRUE],   \* M_AC_PF_C
     [op |-> "skip", n |-> 34],
     [op |-> "sf", type |-> "int"],
     [op |-> "skip", n |-> -34],
     [op |-> "val", name |-> MeterFieldNames[32], bits |-> 32, type |-> "uint", trunc |-> TRUE, sentinel |-> <<65535, 65535>>, scaled |-> TRUE],   \* M_Exported
     [op |-> "val", name |-> MeterFieldNames[33], bits |-> 32, type |-> "uint", trunc |-> TRUE, sentinel |-> <<65535, 65535>>, scaled |-> TRUE],   \* M_Exported_A
     [op |-> "val", name |-> MeterFieldNames[34], bits |-> 32, type |-> "uint", trunc |-> TRUE, sentinel |-> <<65535, 65535>>, scaled |-> TRUE],   \* M_Exported_B
     [op |-> "val", name |-> MeterFieldNames[35], bits |-> 32, type |-> "uint", trunc |-> TRUE, sentinel |-> <<65535, 65535>>, scaled |-> TRUE],   \* M_Exported_C
     [op |-> "val", name |-> MeterFieldNames[36], bits |-> 32, type |-> "uint", trunc |-> TRUE, sentinel |-> <<65535, 65535>>, scaled |-> TRUE],   \* M_Imported
     [op |-> "val", name |-> MeterFieldNames[37], bits |-> 32, type |-> "uint", trunc |-> TRUE, sentinel |-> <<65535, 65535>>, scaled |-> TRUE],   \* M_Imported_A
     [op |-> "val", name |-> MeterFieldNames[38], bits |-> 32, type |-> "uint", trunc |-> TRUE, sentinel |-> <<65535, 65535>>, scaled |-> TRUE],   \* M_Imported_B
     [op |-> "val", name |-> MeterFieldNames[39], bits |-> 32, type |-> "uint", trunc |-> TRUE, sentinel |-> <<65535, 65535>>, scaled |-> TRUE],   \* M_Imported_C
     [op |-> "const", name |-> MeterFieldNames[40]],   \* M_AC_Current_SF
     [op |-> "const", name |-> MeterFieldNames[41]],   \* M_AC_Voltage_SF
     [op |-> "const", name |-> MeterFieldNames[42]],   \* M_AC_Frequency_SF
     [op |-> "const", name |-> MeterFieldNames[43]],   \* M_AC_Power_SF
     [op |-> "const", name |-> MeterFieldNames[44]],   \* M_AC_VA_SF
     [op |-> "const", name |-> MeterFieldNames[45]],   \* M_AC_VAR_SF
     [op |-> "const", name |-> MeterFieldNames[46]],   \* M_AC_PF_SF
     [op |-> "const", name |-> MeterFieldNames[47]]   \* M_Energy_W_SF
  >>

BatteryRecipe ==
  <<
     [op |-> "val", name |-> BatteryFieldNames[1], bits |-> 32, type |-> "float", trunc |-> FALSE, sentinel |-> <<>>, scaled |-> FALSE],   \* B_Rated_Energy
     [op |-> "val", name |-> BatteryFieldNames[2], bits |-> 32, type |-> "float", trunc |-> FALSE, sentinel |-> <<>>, scaled |-> FALSE],   \* B_Max_Charge_Continues_Power
     [op |-> "val", name |-> BatteryFieldNames[3], bits |-> 32, type |-> "float", trunc |-> FALSE, sentinel |-> <<>>, scaled |-> FALSE],   \* B_Max_Discharge_Continues_Power
     [op |-> "val", name |-> BatteryFieldNames[4], bits |-> 32, type |-> "float", trunc |-> FALSE, sentinel |-> <<>>, scaled |-> FALSE],   \* B_Max_Charge_Peak_Power
     [op |-> "val", name |-> BatteryFieldNames[5], bits |-> 32, type |-> "float", trunc |-> FALSE, sentinel |-> <<>>, scaled |-> FALSE],   \* B_Max_Discharge_Peak_Power
     [op |-> "skip", n |-> 64],
     [op |-> "val", name |-> BatteryFieldNames[6], bits |-> 32, type |-> "float", trunc |-> FALSE, sentinel |-> <<>>, scaled |-> FALSE],   \* B_Average_Temperature
     [op |-> "val", name |-> BatteryFieldNames[7], bits |-> 32, type |-> "float", trunc |-> FALSE, sentinel |-> <<>>, scaled |-> FALSE],   \* B_Max_Temperature
     [op |-> "val", name |-> BatteryFieldNames[8], bits |-> 32, type |-> "float", trunc |-> FALSE, sentinel |-> <<>>, scaled |-> FALSE],   \* B_Instantaneous_Voltage
     [op |-> "val", name |-> BatteryFieldNames[9], bits |-> 32, type |-> "float", trunc |-> FALSE, sentinel |-> <<>>, scaled |-> FALSE],   \* B_Instantaneous_Current
     [op |-> "val", name |-> BatteryFieldNames[10], bits |-> 32, type |-> "float", trunc |-> FALSE, sentinel |-> <<>>, scaled |-> FALSE],   \* B_Instantaneous_Power
     [op |-> "val", name |-> BatteryFieldNames[11], bits |-> 64, type |-> "uint", trunc |-> FALSE, sentinel |-> <<>>, scaled |-> FALSE],   \* B_Lifetime_Export_Energy_Counter
     [op |-> "val", name |-> BatteryFieldNames[12], bits |-> 64, type |-> "uint", trunc |-> FALSE, sentinel |-> <<>>, scaled |-> FALSE],   \* B_Lifetime_Import_Energy_Counter
     [op |-> "val", name |-> BatteryFieldNames[13], bits |-> 32, type |-> "float", trunc |-> FALSE, sentinel |-> <<>>, scaled |-> FALSE],   \* B_Max_Energy
     [op |-> "val", name |-> BatteryFieldNames[14], bits |-> 32, type |-> "float", trunc |-> FALSE, sentinel |-> <<>>, scaled |-> FALSE],   \* B_Available_Energy
     [op |-> "val", name |-> BatteryFieldNames[15], bits |-> 32, type |-> "float", trunc |-> FALSE, sentinel |-> <<>>, scaled |-> FALSE],   \* B_State_of_Health
     [op |-> "val", name |-> BatteryFieldNames[16], bits |-> 32, type |-> "float", trunc |-> FALSE, sentinel |-> <<>>, scaled |-> FALSE],   \* B_State_of_Energy
     [op |-> "val", name |-> BatteryFieldNames[17], bits |-> 32, type |-> "uint", trunc |-> FALSE, sentinel |-> <<>>, scaled |-> FALSE],   \* B_Status
     [op |-> "val", name |-> BatteryFieldNames[18], bits |-> 32, type |-> "uint", trunc |-> FALSE, sentinel |-> <<>>, scaled |-> FALSE]   \* B_Status_Internal
  >>

pollVars == <<cfgVars, pc, rpc, x, infoVars, conn, connFailed, addr, call, sinkVars, histVars, reads, waited, called>>

Recipe(stage) ==
  CASE stage = "inv_info"     -> InvInfoRecipe
    [] stage = "meter_info"   -> MeterInfoRecipe
    [] stage = "battery_info" -> BatteryInfoRecipe
    [] stage = "inverter"     -> InverterRecipe
    [] stage = "meter"        -> MeterRecipe
    [] stage = "battery"      -> BatteryRecipe

\* a battery telemetry read that asks for one word less
BlockLenShortBattery(stage) ==
  CASE stage = "inv_info"     -> 65
    [] stage = "meter_info"   -> 65
    [] stage = "battery_info" -> 76
    [] stage = "inverter"     -> 50
    [] stage = "meter"        -> 105
    [] stage = "battery"      -> 71

\* the count argument of the stage's read_regs call
BlockLen(stage) ==
  CASE stage = "inv_info"     -> 65
    [] stage = "meter_info"   -> 65
    [] stage = "battery_info" -> 76
    [] stage = "inverter"     -> 50
    [] stage = "meter"        -> 105
    [] stage = "battery"      -> 72

\* the registers of a block, counted from 0, that the recipe reads as scale factors
ScaleFactorRegs(stage) ==
  CASE stage = "inverter" -> {6, 13, 15, 17, 19, 21, 23, 26, 28, 30, 32, 37}
    [] stage = "meter"    -> {6, 15, 17, 22, 27, 32, 37, 54}
    [] OTHER              -> {}

\* register words a device can answer with: zero, a plain reading, the
\* smallest negative signed word, and the two largest unsigned words
ValWords == {0, 1234, 32768, 65534, 65535}

\* scale factor words: 0, 2, the largest and smallest signed exponent, -3, -1
SFWords == {0, 2, 32767, 32768, 65533, 65535}

DecStages == InfoStages \cup ReadStages

\* the block returned by read_regs: scale factor registers hold fill.sf, the
\* others fill.even or fill.odd by the parity of their index
reg_block ==
  [i \in 0..(BlockLen(pc) - 1) |->
     IF i \in ScaleFactorRegs(pc) THEN fill.sf
     ELSE IF i % 2 = 0 THEN fill.even ELSE fill.odd]

Decoding == pc \in DecStages /\ rpc = "ok" /\ ip \in 1..Len(Recipe(pc))

Op == Recipe(pc)[ip]

InBlock(nbytes) == data.pointer >= 0 /\ data.pointer + nbytes <= 2 * BlockLen(pc)

Words(n) == [j \in 1..n |-> reg_block[(data.pointer \div 2) + j - 1]]

\* a cursor that cannot move backwards
AdvanceForwardOnly(nbytes) ==
  data' = [data EXCEPT !.pointer = @ + (IF nbytes < 0 THEN 0 ELSE nbytes)]

\* data.skip_bytes(nbytes), and the advance of every decode call
Advance(nbytes) == data' = [data EXCEPT !.pointer = @ + nbytes]

\* an exception leaves the recipe: logged by the handlers of the polling
\* loop, a traceback ending the program in the identification stages
Raise(name) ==
  /\ ip' = -ip
  /\ lastLog' = IF pc \in InfoStages THEN "traceback" ELSE name
  /\ UNCHANGED <<pollVars, fill, data, scalefactor, sfreg, dictOut, rawOf>>

DecodeSkip ==
  /\ Decoding
  /\ Op.op = "skip"
  /\ Advance(Op.n)
  /\ ip' = ip + 1
  /\ UNCHANGED <<pollVars, fill, scalefactor, sfreg, dictOut, rawOf, lastLog>>

DecodeString ==
  /\ Decoding
  /\ Op.op = "str"
  /\ IF ~InBlock(Op.n) THEN Raise("unhandled_struct_error")
     ELSE IF ~ValidUTF8(Bytes(Words(Op.n \div 2))) THEN Raise("unhandled_UnicodeDecodeError")
     ELSE /\ Advance(Op.n)
          /\ ip' = ip + 1
          /\ UNCHANGED <<pollVars, fill, scalefactor, sfreg, dictOut, rawOf, lastLog>>

DecodeScaleFactor ==
  /\ Decoding
  /\ Op.op = "sf"
  /\ IF ~InBlock(2) THEN Raise("unhandled_struct_error")
     ELSE /\ scalefactor' = Exponent(Op.type, UnpackWords(Words(1), data)[1])
          /\ sfreg' = data.pointer \div 2
          /\ Advance(2)
          /\ ip' = ip + 1
          /\ UNCHANGED <<pollVars, fill, dictOut, rawOf, lastLog>>

DecodeValue ==
  /\ Decoding
  /\ Op.op = "val"
  /\ LET n == Op.bits \div 16
         raw == Decode(Op.bits, Op.type, Words(n), data)
         fooVal == IF Op.trunc THEN trunc_float(raw) ELSE raw
         kept == Op.sentinel = <<>> \/ Below(fooVal, Op.sentinel)
     IN  IF ~InBlock(2 * n) THEN Raise("unhandled_struct_error")
         ELSE IF kept /\ Op.scaled /\ Overflows(scalefactor)
         THEN Raise("unhandled_OverflowError")
         ELSE /\ dictOut' = Put(dictOut, Op.name,
                                IF ~kept THEN Zero
                                ELSE IF Op.scaled THEN Times(fooVal, scalefactor)
                                ELSE fooVal)
              /\ rawOf' = Put(rawOf, Op.name, [words |-> Words(n), value |-> raw, at |-> data.pointer,
                                               sf |-> scalefactor, sfreg |-> sfreg])
              /\ Advance(2 * n)
              /\ ip' = ip + 1
              /\ UNCHANGED <<pollVars, fill, scalefactor, sfreg, lastLog>>

\* dictInv['AC_Current_SF'] = 0.0 and the like
DecodeConst ==
  /\ Decoding
  /\ Op.op = "const"
  /\ dictOut' = Put(dictOut, Op.name, Zero)
  /\ ip' = ip + 1
  /\ UNCHANGED <<pollVars, fill, data, scalefactor, sfreg, rawOf, lastLog>>

DecIdle ==
  /\ ip = 0
  /\ fill = [even |-> 0, odd |-> 0, sf |-> 0]
  /\ data = Decoder("inverter")
  /\ scalefactor = 0
  /\ sfreg = -1
  /\ dictOut = EmptyMap
  /\ rawOf = EmptyMap

----------------------------------------------------------------------------

Init ==
  /\ mbmeters \in 0..MaxMeters
  /\ mbbatteries \in 0..MaxBatteries
  /\ legacysupport \in BOOLEAN
  /\ pc = "inv_info"
  /\ rpc = "req"
  /\ x = 0
  /\ connflag = FALSE
  /\ battflag = FALSE
  /\ dictMeterLabel = <<>>
  /\ dictBattery = <<>>
  /\ conn = "closed"
  /\ connFailed = FALSE
  /\ addr = 0
  /\ call = NoCall
  /\ datapoint = [measurement |-> <<"SolarEdge", 0>>, fields |-> EmptyMap]
  /\ promInv = EmptyMap
  /\ promMeter = EmptyMap
  /\ influx = [measurement |-> <<"none", 0>>, fields |-> EmptyMap]
  /\ lastLog = "none"
  /\ issued = {}
  /\ okRead = {}
  /\ published = {}
  /\ raised = FALSE
  /\ reads = {}
  /\ waited = FALSE
  /\ called = {}
  /\ created = EmptyMap
  /\ DecIdle

Next ==
  \/ ReadRequest
  \/ ReadRetry
  \/ ReadSleep
  \/ InvInfo
  \/ MeterInfo
  \/ BatteryInfo
  \/ InverterStep
  \/ MeterStep
  \/ BatteryStep
  \/ Write
  \/ Sleep

Spec == Init /\ [][Next]_vars

----------------------------------------------------------------------------
(* publish_metrics on its own: any sequence of calls the loop can make, each *)
(* with the complete dictionary of its recipe.  pc and x hold the objtype    *)
(* and meternum of the last call, published the devices published so far.    *)

PublishInverterCall ==
  /\ pc \in {"publish_metrics", "inverter", "meter", "battery"}
  /\ LET dictobj == Reading(AllFields(InvFieldNames), Inverter)
     IN /\ promInv' = publish_inv(promInv, dictobj)
        /\ created' = create_inv(created, promInv, dictobj)
        /\ datapoint' = SetFields(datapoint, dictobj)
        /\ published' = published \cup {Inverter}
        /\ pc' = "inverter" /\ x' = 0
  /\ UNCHANGED <<cfgVars, decVars, reads, waited, called, rpc, infoVars, conn, connFailed, addr, call, promMeter, influx, lastLog,
                 issued, okRead, raised>>

PublishMeterCall ==
  /\ pc \in {"publish_metrics", "inverter", "meter", "battery"}
  /\ \E meternum \in 1..MaxMeters :
       LET dictobj == Reading(AllFields(MeterFieldNames), Meter(meternum))
       IN /\ promMeter' = publish_meter(promMeter, dictobj, meternum, legacysupport)
          /\ created' = create_meter(created, promMeter, dictobj, meternum, legacysupport)
          /\ datapoint' = SetFields(datapoint, dictobj)
          /\ published' = published \cup {Meter(meternum)}
          /\ pc' = "meter" /\ x' = meternum
  /\ UNCHANGED <<cfgVars, decVars, reads, waited, called, rpc, infoVars, conn, connFailed, addr, call, promInv, influx, lastLog,
                 issued, okRead, raised>>

PublishBatteryCall ==
  /\ pc \in {"publish_metrics", "inverter", "meter", "battery"}
  /\ \E meternum \in 1..MaxBatteries :
       LET dictobj == Reading(AllFields(BatteryFieldNames), Battery(meternum))
       IN /\ promInv' = publish_inv(promInv, dictobj)
          /\ created' = create_inv(created, promInv, dictobj)
          /\ datapoint' = SetFields(datapoint, dictobj)
          /\ published' = published \cup {Battery(meternum)}
          /\ pc' = "battery" /\ x' = meternum
  /\ UNCHANGED <<cfgVars, decVars, reads, waited, called, rpc, infoVars, conn, connFailed, addr, call, promMeter, influx, lastLog,
                 issued, okRead, raised>>

PubInit ==
  /\ mbmeters = MaxMeters
  /\ mbbatteries = MaxBatteries
  /\ legacysupport \in BOOLEAN
  /\ pc = "publish_metrics"
  /\ rpc = "idle"
  /\ x = 0
  /\ connflag = FALSE
  /\ battflag = FALSE
  /\ dictMeterLabel = <<>>
  /\ dictBattery = <<>>
  /\ conn = "closed"
  /\ connFailed = FALSE
  /\ addr = 0
  /\ call = NoCall
  /\ datapoint = [measurement |-> <<"SolarEdge", 0>>, fields |-> EmptyMap]
  /\ promInv = EmptyMap
  /\ promMeter = EmptyMap
  /\ influx = [measurement |-> <<"none", 0>>, fields |-> EmptyMap]
  /\ lastLog = "none"
  /\ issued = {}
  /\ okRead = {}
  /\ published = {}
  /\ raised = FALSE
  /\ reads = {}
  /\ waited = FALSE
  /\ called = {}
  /\ created = EmptyMap
  /\ DecIdle

PubNext ==
  \/ PublishInverterCall
  \/ PublishMeterCall
  \/ PublishBatteryCall

PubSpec == PubInit /\ [][PubNext]_vars

----------------------------------------------------------------------------
(* Decoding on its own: one block of any stage, filled from the sample     *)
(* words, walked by the recipe of its stage one operation at a time.       *)
DecInit ==
  /\ mbmeters = 1 /\ mbbatteries = 1 /\ legacysupport = FALSE
  /\ pc \in DecStages
  /\ rpc = "ok"
  /\ x = IF pc \in {"inv_info", "inverter"} THEN 0 ELSE 1
  /\ connflag = FALSE /\ battflag = FALSE
  /\ dictMeterLabel = <<>> /\ dictBattery = <<>>
  /\ conn = "open" /\ connFailed = FALSE
  /\ addr = ReadAddr(pc, x)
  /\ call = [NoCall EXCEPT !.requests = 1]
  /\ datapoint = [measurement |-> <<"SolarEdge", 0>>, fields |-> EmptyMap]
  /\ promInv = EmptyMap /\ promMeter = EmptyMap
  /\ influx = [measurement |-> <<"none", 0>>, fields |-> EmptyMap]
  /\ lastLog = "none"
  /\ issued = {} /\ okRead = {} /\ published = {} /\ raised = FALSE
  /\ reads = {} /\ waited = FALSE /\ called = {ReadAddr(pc, x)} /\ created = EmptyMap
  /\ ip = 1
  /\ fill \in [even : ValWords, odd : ValWords,
               sf : IF ScaleFactorRegs(pc) = {} THEN {0} ELSE SFWords]
  /\ data = Decoder(pc)
  /\ scalefactor = 0
  /\ sfreg = -1
  /\ dictOut = EmptyMap
  /\ rawOf = EmptyMap

DecNext ==
  \/ DecodeSkip
  \/ DecodeString
  \/ DecodeScaleFactor
  \/ DecodeValue
  \/ DecodeConst

DecSpec == DecInit /\ [][DecNext]_vars

----------------------------------------------------------------------------
(* Properties *)

\* a steady-state cycle has ended: at the sleep of line 1200, or back at the
\* top of the loop after the continue of line 578
CycleOver == pc = "sleep" \/ (pc = "inverter" /\ rpc = "req" /\ issued # {})

\* C1: in a cycle without exception in which some telemetry read failed,
\* every configured device's read was still issued and every device whose
\* read succeeded was published.
C1_ReadFailureKeepsCycle ==
  (CycleOver /\ ~raised /\ okRead # issued)
    => (issued = Devices /\ okRead \subseteq published)

\* C2: once the meter identification stage has exited, a label is stored for
\* every configured meter index.
C2_AllMetersLabelled ==
  (Steady \/ pc = "battery_info")
    => \A i \in 1..mbmeters : i <= Len(dictMeterLabel)

\* C3: in steady state a label is stored for every configured battery index,
\* and every battery whose telemetry read succeeded is published.
C3_AllBatteriesLabelled ==
  Steady =>
    /\ \A i \in 1..mbbatteries : i <= Len(dictBattery)
    /\ \A i \in 1..mbbatteries :
         (Battery(i) \in okRead /\ ~(pc = "battery" /\ x = i /\ rpc = "ok"))
           => Battery(i) \in published

\* C4: whenever meter i or battery i is published, the label looked up by its
\* index is the label derived from device i's own identification block.
C4_LabelIsOwn ==
  /\ pc = "meter_write" => datapoint.measurement = MeterLabel(x)
  /\ pc = "battery_write" => datapoint.measurement = BatteryLabel(x)

\* C5: no data error terminates the process.
C5_NeverTerminates == pc # "terminated"

\* C6: a decode error on one device's telemetry block leaves the rest of the
\* cycle in place: the cycle does not end before every device was read.
C6_DecodeErrorKeepsCycle ==
  (pc = "sleep" /\ lastLog = "unhandled_OverflowError") => issued = Devices

\* the socket is open and the last request sent on it failed
FailedConnection == conn = "open" /\ connFailed

C8_WriteFailure ==
  /\ [][(pc \in WriteStages /\ raised')
          => /\ lastLog' = "failed_to_write"
             /\ pc' = "sleep"
             /\ UNCHANGED <<dictMeterLabel, dictBattery, promInv, promMeter>>]_vars
  /\ [][pc = "sleep" => (pc' = "inverter" /\ rpc' = "req")]_vars

C8_Witness == pc = "sleep" /\ lastLog = "failed_to_write" /\ promInv # EmptyMap

\* C9: publishing battery 2 never overwrites a gauge value of battery 1.
C9_BatteryGaugesDistinct ==
  [][\A n \in DOMAIN promInv :
       promInv[n].val = Battery(1) => promInv'[n].val # Battery(2)]_vars

\* the gauge name C10 states for field M_X of meter i
StatedMeterName(key, i, legacy) ==
  IF legacy /\ i = 1 THEN key
  ELSE <<"M">> \o Str(i) \o <<"_">> \o SubSeq(key, 3, Len(key))

\* C10: after publish_metrics for meter i, every field M_X is in the gauge
\* named M_X (legacy on and i = 1) or M<i>_X (otherwise); and (index, field)
\* pairs do not share gauges: every published meter holds one gauge per field.
C10_MeterGaugeNames ==
  /\ pc = "meter" =>
       \A k \in AllFields(MeterFieldNames) :
         LET n == StatedMeterName(k, x, legacysupport)
         IN n \in DOMAIN promMeter /\ promMeter[n] = [val |-> Meter(x), key |-> k]
  /\ \A d \in published :
       d[1] = "meter" =>
         Cardinality({n \in DOMAIN promMeter : promMeter[n].val = d}) = Len(MeterFieldNames)

C10_Witness ==
  /\ pc = "meter" /\ x = 1 /\ legacysupport
  /\ {Meter(1), Meter(2), Meter(3)} \subseteq published

----------------------------------------------------------------------------
(* Decoded values *)

\* the fields a recipe reads from the block
ValOps(stage) ==
  {Recipe(stage)[i] : i \in {j \in 1..Len(Recipe(stage)) : Recipe(stage)[j].op = "val"}}

Done == ip = Len(Recipe(pc)) + 1

\* a scale factor word read as a signed exponent
SignedExponent(w) == IF w >= 32768 THEN w - 65536 ELSE w

\* C11 as stated: a 16-bit field of the inverter or meter recipe is published
\* as 0.0 exactly when its raw register word is 65535 or more.
C11_ZeroIffSentinel ==
  pc \in {"inverter", "meter"} =>
    \A o \in ValOps(pc) :
      (o.bits = 16 /\ o.name \in DOMAIN dictOut) =>
        (dictOut[o.name] = Zero <=> rawOf[o.name].words[1] >= 65535)

\* C11 amended: a 16-bit field decoded as unsigned publishes the word 65535 as
\* 0.0 and a smaller word v as v * 10^e; a field decoded as signed is never
\* replaced and publishes the two's-complement value of its word times 10^e,
\* so the word 65535 as -1 * 10^e.  Besides the replaced sentinel, 0.0 is
\* published only for the word 0 or an exponent below the range of a float.
C11_UnsignedSentinelZero ==
  pc \in {"inverter", "meter"} =>
    \A o \in ValOps(pc) :
      (o.bits = 16 /\ o.name \in DOMAIN dictOut) =>
        LET v == rawOf[o.name].words[1]
            e == IF o.scaled THEN SignedExponent(fill.sf) ELSE 0
            stated == IF o.type = "uint"
                      THEN IF v = 65535 THEN Zero ELSE Times(Num(FALSE, 0, v, 0), e)
                      ELSE IF v >= 32768 THEN Times(Num(TRUE, 0, 65536 - v, 0), e)
                      ELSE Times(Num(FALSE, 0, v, 0), e)
        IN  /\ dictOut[o.name] = stated
            /\ dictOut[o.name] = Zero <=>
                 ((o.type = "uint" /\ v = 65535) \/ v = 0 \/ e < MinFloatExp)

\* an inverter reading whose registers all hold 65535 was decoded
C11_Witness ==
  /\ pc = "inverter" /\ Done
  /\ \E o, s \in ValOps(pc) :
       /\ o.bits = 16 /\ o.type = "uint" /\ rawOf[o.name].words = <<65535>>
       /\ dictOut[o.name] = Zero
       /\ s.bits = 16 /\ s.type = "int" /\ rawOf[s.name].words = <<65535>>
       /\ dictOut[s.name] # Zero

\* C12: every scale factor register is decoded as a signed 16-bit exponent e
\* and applied as value * 10^e; in particular the word 0xFFFF in the scale
\* factor register of the inverter's AC energy counter means e = -1.
C12_ScaleFactorSigned ==
  pc \in {"inverter", "meter"} =>
    /\ (ip > 1 /\ Recipe(pc)[ip - 1].op = "sf") => scalefactor = SignedExponent(fill.sf)
    /\ \A o \in ValOps(pc) :
         (o.scaled /\ o.name \in DOMAIN dictOut /\ Below(rawOf[o.name].value, o.sentinel)) =>
           dictOut[o.name] = Times(rawOf[o.name].value, SignedExponent(fill.sf))

\* C13: a scaled 16-bit field whose raw value v is below the sentinel is
\* published as v * 10^e rounded to two decimal places: the rounding is applied
\* to the scaled result.
C13_ScaledThenRounded ==
  pc \in {"inverter", "meter"} =>
    \A o \in ValOps(pc) :
      (/\ o.bits = 16 /\ o.scaled /\ o.name \in DOMAIN dictOut
       /\ Below(rawOf[o.name].value, <<65535>>)) =>
        dictOut[o.name] =
          trunc_float(Times(rawOf[o.name].value, SignedExponent(fill.sf)))

\* C14: a 32-bit accumulator (the inverter's AC_Energy_WH, the meter's exported
\* and imported energies) with raw value v is published as 0.0 when
\* v >= 4294967295, and otherwise as v times 10^e, e the scale factor of its
\* group (which is 0.0 again for v = 0).
C14_Accumulators ==
  pc \in {"inverter", "meter"} =>
    \A i \in 1..Len(Recipe(pc)) :
      LET o == Recipe(pc)[i]
      IN  (o.op = "val" /\ o.bits = 32) =>
            /\ SignedExponent(fill.sf) <= MaxFloatExp => ip # -i
            /\ o.name \in DOMAIN dictOut =>
                 LET w == rawOf[o.name].words
                 IN  dictOut[o.name] =
                       IF w = <<65535, 65535>> THEN Zero
                       ELSE Times(Num(FALSE, w[1], w[2], 0), SignedExponent(fill.sf))

\* C15: every decoder reads with big-endian byte order; the decoders of
\* inverter and meter blocks use big-endian word order and those of battery
\* blocks little-endian word order: the consecutive words (w0, w1) of a 32-bit
\* value give w0 * 65536 + w1 in an inverter or meter block and
\* w1 * 65536 + w0 in a battery block.
C15_WordOrder ==
  (pc \in DecStages /\ ip # 0) =>
    LET little == pc \in {"battery_info", "battery"}
    IN  /\ data.byteorder = "big"
        /\ data.wordorder = IF little THEN "little" ELSE "big"
        /\ \A o \in ValOps(pc) :
             (o.bits = 32 /\ o.name \in DOMAIN rawOf) =>
               LET w == rawOf[o.name].words
                   hi == IF little THEN w[2] ELSE w[1]
                   lo == IF little THEN w[1] ELSE w[2]
               IN  rawOf[o.name].value =
                     IF o.type = "float" THEN [f32 |-> <<hi, lo>>]
                     ELSE Num(FALSE, hi, lo, 0)

\* a battery block and an inverter block were decoded whose 32-bit fields
\* hold two different words
C15_Witness ==
  /\ pc \in {"battery", "inverter"} /\ Done
  /\ \E o \in ValOps(pc) :
       /\ o.bits = 32 /\ o.type = "uint"
       /\ rawOf[o.name].words[1] # rawOf[o.name].words[2]
       /\ dictOut[o.name] # Zero

----------------------------------------------------------------------------
(* Stages *)

Issued(stage) == <<"issued", stage>> \in reads

Exited(stage) == <<"exit", stage>> \in reads

\* C16: the stages run in the order inverter identification, meter
\* identification, battery identification, steady polling: no meter or battery
\* identification read is issued before an inverter identification read has
\* succeeded, no telemetry read before the identification stages have been
\* left, no identification read once a later stage has read, and a stage whose
\* device count is 0 issues no read.
C16_StageOrder ==
  /\ (Issued("meter_info") \/ Issued("battery_info")) => <<"ok", "inv_info">> \in reads
  /\ Issued("battery_info") => (mbmeters >= 1 => Exited("meter_info"))
  /\ (\E s \in ReadStages : Issued(s)) =>
       /\ Exited("inv_info")
       /\ mbmeters >= 1 => Exited("meter_info")
       /\ mbbatteries >= 1 => Exited("battery_info")
  /\ (rpc \in {"req", "retry"} /\ pc = "inv_info") => reads \subseteq {<<"issued", "inv_info">>}
  /\ (rpc \in {"req", "retry"} /\ pc = "meter_info") =>
       ~Issued("battery_info") /\ ~(\E s \in ReadStages : Issued(s))
  /\ (rpc \in {"req", "retry"} /\ pc = "battery_info") => ~(\E s \in ReadStages : Issued(s))
  /\ mbmeters = 0 => ~Issued("meter_info") /\ ~Issued("meter")
  /\ mbbatteries = 0 => ~Issued("battery_info") /\ ~Issued("battery")

\* a configuration with meters and batteries has gone through every stage and
\* read a battery in steady state
C16_Witness ==
  /\ Issued("meter_info") /\ Issued("battery_info")
  /\ Issued("inverter") /\ Issued("meter") /\ Issued("battery")

----------------------------------------------------------------------------
(* Progress.  The coroutine is the only task of the event loop besides the   *)
(* HTTP server: whenever it can take its next step it does, every request    *)
(* returns (the client has a timeout) and every sleep ends.                  *)
\* Progress is checked for configurations of at most LiveMeters meters and
\* LiveBatteries batteries.
LiveMeters == 1
LiveBatteries == 1

LiveInit == Init /\ mbmeters <= LiveMeters /\ mbbatteries <= LiveBatteries

LiveSpec == LiveInit /\ [][Next]_vars /\ WF_vars(Next)

\* an inverter telemetry request has just been issued
InverterReadIssued == pc = "inverter" /\ rpc \in {"ok", "retry", "sleep"}

\* C18: once steady state is reached the loop is never left, and whatever the
\* outcomes of reads, decodes and writes an inverter telemetry read is issued
\* again and again.
C18_SteadyForever == [](Steady => [](Steady /\ <>InverterReadIssued))

\* a second polling cycle has issued its inverter read
C18_Witness == InverterReadIssued /\ influx.measurement # <<"none", 0>> /\ waited = FALSE

----------------------------------------------------------------------------
(* Sinks *)

\* C19: each successfully decoded reading is handed to the time-series sink in
\* one write, whose measurement identifies the device that was read and whose
\* field map is exactly the field set of that reading: no field of a device
\* published before is carried into it.
C19_OneWritePerReading ==
  /\ pc = "inverter_write" =>
       datapoint = [measurement |-> <<"Inverter", 0>>, fields |-> dictInv]
  /\ pc = "meter_write" =>
       datapoint = [measurement |-> MeterLabel(x), fields |-> dictM(x)]
  /\ pc = "battery_write" =>
       datapoint = [measurement |-> BatteryLabel(x), fields |-> dictB(x)]
  /\ influx.measurement # <<"none", 0>> =>
       \E d \in Devices :
         /\ influx.measurement = IF d = Inverter THEN <<"Inverter", 0>> ELSE d
         /\ \A k \in DOMAIN influx.fields : influx.fields[k] = d

\* C20: over any sequence of publish_metrics calls a gauge is constructed at
\* most once per metric name: a call constructs no gauge for a name that is
\* cached, and no entry ever leaves a cache.
C20_GaugesCreatedOnce ==
  [][/\ \A n \in DOMAIN created' : created'[n] = 1
     /\ DOMAIN promInv \subseteq DOMAIN promInv'
     /\ DOMAIN promMeter \subseteq DOMAIN promMeter'
     /\ \A n \in DOMAIN promInv \cup DOMAIN promMeter :
          n \in DOMAIN created /\ created'[n] = created[n]
     /\ DOMAIN created' = DOMAIN promInv' \cup DOMAIN promMeter']_vars

\* every device has been published and the inverter was published last, into
\* a cache that held the battery gauges
C20_Witness ==
  /\ pc = "inverter"
  /\ published = {Inverter} \cup {Meter(i) : i \in 1..MaxMeters}
                   \cup {Battery(i) : i \in 1..MaxBatteries}
  /\ Cardinality(DOMAIN created) = Len(InvFieldNames) + Len(BatteryFieldNames)
                                     + MaxMeters * Len(MeterFieldNames)

----------------------------------------------------------------------------
(* The decode cursor *)

\* the word counts of the telemetry reads as stated: inverter 50, meter 105, battery 72
StatedWords(stage) ==
  CASE stage = "inverter" -> 50
    [] stage = "meter"    -> 105
    [] stage = "battery"  -> 72

\* C21: while a telemetry recipe runs, the byte offset of the decode cursor
\* stays within [0, 2 * wordCount] after every seek and every read, and no read
\* goes past the end of the block (none raises the decoder's struct.error).
C21_CursorInBlock ==
  (pc \in ReadStages /\ ip # 0) =>
    /\ data.pointer >= 0
    /\ data.pointer <= 2 * StatedWords(pc)
    /\ lastLog # "unhandled_struct_error"

\* the battery recipe has read its last field, which ends on the last byte of
\* the block, and the meter recipe has peeked at its last scale factor
C21_Witness ==
  \/ pc = "battery" /\ Done /\ data.pointer = 2 * 72
  \/ pc = "meter" /\ data.pointer = 110 /\ ip > 1 /\ Recipe(pc)[ip - 1].op = "sf"

\* the operations of a recipe that read a field, by position in the recipe
ValIndexes(stage) == {i \in 1..Len(Recipe(stage)) : Recipe(stage)[i].op = "val"}

\* the registers of the inverter block that lie between the fields the recipe
\* reads and are passed over: the cabinet, transformer and other temperatures
UnreadRegs(stage) == IF stage = "inverter" THEN {33, 35, 36} ELSE {}

\* the first scale factor register stored after register reg
NextSF(stage, reg) ==
  CHOOSE s \in ScaleFactorRegs(stage) :
    s > reg /\ \A t \in ScaleFactorRegs(stage) : t > reg => s <= t

\* how the scale factor of the field read by operation i is decoded
RECURSIVE SFType(_, _)
SFType(stage, i) ==
  IF Recipe(stage)[i].op = "sf" THEN Recipe(stage)[i].type ELSE SFType(stage, i - 1)

\* the number of registers taken by the fields read before operation i
RECURSIVE WordsBefore(_, _)
WordsBefore(stage, i) ==
  IF i = 1 THEN 0
  ELSE WordsBefore(stage, i - 1)
         + (IF Recipe(stage)[i - 1].op = "val" THEN Recipe(stage)[i - 1].bits \div 16 ELSE 0)

\* the byte offset a cursor that only ever advances has when it comes to a
\* field starting at register reg: behind every field read before it, every
\* scale factor register and every passed-over register below reg
SequentialOffset(stage, i, reg) ==
  2 * (WordsBefore(stage, i)
       + Cardinality({s \in ScaleFactorRegs(stage) : s < reg})
       + Cardinality({u \in UnreadRegs(stage) : u < reg}))

\* C22: in the inverter and meter recipes, peeking at the scale factor (skip
\* forward, read it, skip back) and then reading the values of its group gives
\* the values that reading the registers in order and applying the scale factor
\* stored after the group gives, and the cursor is where a cursor that only
\* advanced would be: every field is read at its sequential offset and the
\* cursor stands right behind it afterwards.
C22_PeekIsSequential ==
  (pc \in {"inverter", "meter"} /\ ip # 0) =>
    \A i \in ValIndexes(pc) :
      LET o == Recipe(pc)[i]
      IN  o.name \in DOMAIN rawOf =>
            LET r == rawOf[o.name]
                n == o.bits \div 16
                first == r.at \div 2
                last == first + n - 1
                raw == trunc_float(Decode(o.bits, o.type, [j \in 1..n |-> reg_block[first + j - 1]], data))
            IN  /\ r.at = SequentialOffset(pc, i, first)
                /\ (first..last) \cap ScaleFactorRegs(pc) = {}
                /\ ip = i + 1 => data.pointer = r.at + 2 * n
                /\ o.scaled =>
                     /\ r.sfreg = NextSF(pc, last)
                     /\ dictOut[o.name] =
                          IF Below(raw, o.sentinel)
                          THEN Times(raw, Exponent(SFType(pc, i), reg_block[NextSF(pc, last)]))
                          ELSE Zero

\* the inverter recipe ran to its end on a block whose scale factors are -3:
\* the heat sink temperature, whose group is entered and left by skips of
\* different lengths, was read at register 34 and scaled by register 37
C22_Witness ==
  /\ pc = "inverter" /\ Done
  /\ \E o \in ValOps(pc) :
       /\ o.scaled
       /\ rawOf[o.name].at = 68 /\ rawOf[o.name].sfreg = 37 /\ rawOf[o.name].sf = -3
       /\ dictOut[o.name] # Zero

----------------------------------------------------------------------------
(* Order of the reads of a cycle *)

\* a step that issues the first request of a telemetry read_regs call
IssuesTelemetryRead == pc \in ReadStages /\ rpc = "req" /\ rpc' # "req"

\* meter i is passed over by the label guard of line 594
BeyondLabels(i) == dictMeterLabel = <<>> \/ Len(dictMeterLabel) < i

\* C23: at most one register read is outstanding at any time (a read_regs call
\* is in progress only while the loop stands at that read, never while a write
\* is awaited or the loop sleeps), and within one steady-state cycle the reads
\* are issued in the order inverter, meters 1..n ascending, batteries 1..m
\* ascending, each after the publish and write of the devices read before it
\* have finished.
C23_OneReadInOrder ==
  [][/\ rpc' \in {"req", "retry", "sleep"} => pc' \in InfoStages \cup ReadStages
     /\ IssuesTelemetryRead =>
          /\ pc = "inverter" => issued' = {Inverter}
          /\ pc = "meter" =>
               /\ x \in 1..mbmeters
               /\ issued = {Inverter} \cup {Meter(j) : j \in 1..(x - 1)}
               /\ issued' = issued \cup {Meter(x)}
          /\ pc = "battery" =>
               /\ x \in 1..mbbatteries
               /\ issued = {Inverter} \cup {Meter(j) : j \in 1..mbmeters}
                                      \cup {Battery(j) : j \in 1..(x - 1)}
               /\ issued' = issued \cup {Battery(x)}
          /\ pc # "inverter" =>
               /\ ~raised
               /\ Inverter \in published
               /\ \A d \in okRead : d \in published \/ (d[1] = "meter" /\ BeyondLabels(d[2]))
               /\ influx = datapoint
    ]_vars

\* the read of the last battery of a full installation was issued after every
\* other device was read and published
C23_Witness ==
  /\ mbmeters = MaxMeters /\ mbbatteries = MaxBatteries
  /\ pc = "battery" /\ x = MaxBatteries /\ rpc = "ok"
  /\ issued = Devices
  /\ published = Devices \ {Battery(MaxBatteries)}

----------------------------------------------------------------------------
(* Base addresses *)

\* C24: the telemetry block of a device is read at a fixed distance from the
\* address of its identification read: 65 registers for every meter 1..3 (a
\* read of 105 words) and 66 registers for every battery 1..2 (72 words).
C24_BaseOffsets ==
  /\ (pc = "meter" /\ rpc # "req") =>
       /\ addr - ReadAddr("meter_info", x) = 65
       /\ BlockLen(pc) = 105
  /\ (pc = "battery" /\ rpc # "req") =>
       /\ addr - ReadAddr("battery_info", x) = 66
       /\ BlockLen(pc) = 72

----------------------------------------------------------------------------
(* Signed fields *)

\* the inverter fields stated to be signed: AC_Power, AC_VA, AC_VAR, AC_PF,
\* DC_Power, Temp_Sink
StatedSignedInverterFields ==
  {<<"A","C","_","P","o","w","e","r">>,
   <<"A","C","_","V","A">>,
   <<"A","C","_","V","A","R">>,
   <<"A","C","_","P","F">>,
   <<"D","C","_","P","o","w","e","r">>,
   <<"T","e","m","p","_","S","i","n","k">>}

\* C25: the fields decoded as signed 16-bit (the six inverter fields above and
\* every scaled 16-bit meter field) are never replaced by the 0.0 placeholder:
\* whatever the raw word, the published value is the two's-complement value of
\* the word times 10^e, e the scale factor of the group, negative values
\* included; it is 0.0 only as that product (word 0, or 10^e below the range
\* of a float).
C25_SignedNeverReplaced ==
  pc \in {"inverter", "meter"} =>
    /\ \A o \in ValOps(pc) :
         (o.bits = 16 /\ o.scaled) =>
           (o.type = "int" <=> (pc = "meter" \/ o.name \in StatedSignedInverterFields))
    /\ \A o \in ValOps(pc) :
         (o.bits = 16 /\ o.scaled /\ o.type = "int" /\ o.name \in DOMAIN dictOut) =>
           LET w == rawOf[o.name].words[1]
               v == IF w >= 32768 THEN Num(TRUE, 0, 65536 - w, 0) ELSE Num(FALSE, 0, w, 0)
               e == SignedExponent(fill.sf)
           IN  /\ dictOut[o.name] = Times(v, e)
               /\ dictOut[o.name] = Zero <=> (w = 0 \/ e < MinFloatExp)

\* a meter block and an inverter block were decoded in which signed fields hold
\* the words 65535 and 32768: they are published as -1 * 10^e and -32768 * 10^e
C25_Witness ==
  /\ pc \in {"inverter", "meter"} /\ Done
  /\ \E o, s \in ValOps(pc) :
       /\ o.bits = 16 /\ o.scaled /\ o.type = "int"
       /\ rawOf[o.name].words = <<65535>>
       /\ dictOut[o.name] = Times(Num(TRUE, 0, 1, 0), SignedExponent(fill.sf))
       /\ dictOut[o.name] # Zero
       /\ s.bits = 16 /\ s.scaled /\ s.type = "int"
       /\ rawOf[s.name].words = <<32768>>
       /\ dictOut[s.name].neg /\ dictOut[s.name] # Zero

----------------------------------------------------------------------------
(* Meters without a label *)

\* gauges or the time-series sink hold a value read from device d
InSinks(d) ==
  \/ \E n \in DOMAIN promMeter : promMeter[n].val = d
  \/ \E n \in DOMAIN promInv : promInv[n].val = d
  \/ \E k \in DOMAIN influx.fields : influx.fields[k] = d

\* C26: in steady state a meter whose index exceeds the number of stored meter
\* labels is never published to either sink, although its telemetry read is
\* issued in the cycle; passing it over raises nothing and the loop goes on
\* with the next meter, or after the last meter with the batteries.
C26_UnlabelledMeterSkipped ==
  [][/\ (pc = "meter" /\ rpc \in {"ok", "fail"} /\ BeyondLabels(x)) =>
          /\ Meter(x) \in issued
          /\ UNCHANGED <<promInv, promMeter, influx, published, raised>>
          /\ IF x < mbmeters THEN pc' = "meter" /\ x' = x + 1 /\ rpc' = "req"
             ELSE IF mbbatteries >= 1 THEN pc' = "battery" /\ x' = 1 /\ rpc' = "req"
             ELSE pc' = "sleep"
     /\ \A i \in 1..MaxMeters :
          (dictMeterLabel' = <<>> \/ Len(dictMeterLabel') < i) =>
            (~InSinks(Meter(i)))' /\ Meter(i) \notin published'
    ]_vars

\* three meters of which one has a label: meters 2 and 3 were read and passed
\* over, meter 1 and the first battery were published in the same cycle
C26_Witness ==
  /\ mbmeters = 3 /\ Len(dictMeterLabel) = 1 /\ mbbatteries >= 1
  /\ {Meter(2), Meter(3)} \subseteq issued
  /\ {Meter(1), Battery(1)} \subseteq published
  /\ ~InSinks(Meter(2)) /\ ~InSinks(Meter(3))
  /\ InSinks(Battery(1))

----------------------------------------------------------------------------
(* The calls of read_regs *)

\* C27: on a receive error (last_error = 4) read_regs issues exactly one
\* immediate retry, without closing the connection and without sleeping; if the
\* retry returns data the call succeeds with that data; only if the retry fails
\* too is the connection closed, one poll interval slept and failure returned.
\* The receive-error counter is incremented exactly once in such a call, and no
\* other call retries or increments it.
C27_ReceiveErrorRetry ==
  /\ call.err = MB_RECV_ERR =>
       /\ call.recv = 1
       /\ rpc \in {"retry", "ok", "sleep", "fail"}
       /\ rpc = "retry" =>
            call.requests = 1 /\ call.closes = 0 /\ call.sleeps = 0 /\ ~waited
       /\ rpc = "ok" =>
            /\ call.requests = 2 /\ call.closes = 0 /\ call.sleeps = 0
            /\ <<"ok", pc>> \in reads
            /\ pc \in ReadStages => CurDev \in okRead
       /\ rpc = "sleep" =>
            call.requests = 2 /\ call.closes = 1 /\ call.sleeps = 0 /\ conn = "closed"
       /\ rpc = "fail" =>
            /\ call.requests = 2 /\ call.closes = 1 /\ call.sleeps = 1
            /\ conn = "closed" /\ waited
  /\ call.err # MB_RECV_ERR => call.recv = 0 /\ call.requests <= 1 /\ rpc # "retry"

\* a meter read succeeded on the retry that followed a receive error, the
\* socket having stayed open
C27_Witness ==
  /\ pc = "meter" /\ rpc = "ok" /\ conn = "open"
  /\ call.err = MB_RECV_ERR /\ call.requests = 2

\* C28: every read_regs call that returns failure has closed the connection
\* and slept exactly one poll interval before returning, whatever the error
\* code; so in every stage two read_regs calls for the same device section
\* have a completed poll-interval sleep between them: no loop spins.
C28_FailureWaits ==
  [][/\ (rpc' = "fail" /\ rpc # "fail") =>
          /\ call'.err \in LastErrors
          /\ call'.closes = 1 /\ call'.sleeps = 1
          /\ conn' = "closed"
          /\ waited' /\ called' = {}
     /\ (rpc = "req" /\ rpc' # "req") => ReadAddr(pc, x) \notin called
    ]_vars

\* a battery read that failed with a timeout has returned, after an earlier
\* cycle wrote a datapoint
C28_Witness ==
  /\ pc = "battery" /\ rpc = "fail"
  /\ call.err = MB_TIMEOUT_ERR /\ call.closes = 1 /\ call.sleeps = 1
  /\ conn = "closed" /\ called = {}
  /\ influx.measurement # <<"none", 0>>

----------------------------------------------------------------------------
(* Gauges before the write *)

\* every gauge of the reading of the device at hand holds that reading
GaugesHoldReading ==
  CASE pc \in {"inverter", "inverter_write"} ->
         \A k \in DOMAIN dictInv :
           /\ InvGaugeName(k) \in DOMAIN promInv
           /\ promInv[InvGaugeName(k)].val = Inverter
    [] pc \in {"meter", "meter_write"} ->
         \A k \in DOMAIN dictM(x) :
           /\ MeterGaugeName(k, x, legacysupport) \in DOMAIN promMeter
           /\ promMeter[MeterGaugeName(k, x, legacysupport)].val = Meter(x)
    [] pc \in {"battery", "battery_write"} ->
         \A k \in DOMAIN dictB(x) :
           /\ InvGaugeName(k) \in DOMAIN promInv
           /\ promInv[InvGaugeName(k)].val = Battery(x)
    [] OTHER -> FALSE

\* C29: all gauges of a device reading are set before its time-series write
\* is attempted; a write that fails leaves the gauges holding the new reading
\* and the time-series sink as it was; a failed telemetry read changes neither
\* sink.
C29_GaugesBeforeWrite ==
  [][/\ pc' \in WriteStages => GaugesHoldReading'
     /\ pc \in WriteStages =>
          /\ GaugesHoldReading
          /\ datapoint.fields = [k \in DOMAIN datapoint.fields |-> CurDev]
          /\ UNCHANGED <<promInv, promMeter>>
          /\ lastLog' = "failed_to_write" => influx' = influx /\ raised'
          /\ lastLog' # "failed_to_write" => influx' = datapoint
     /\ (pc \in ReadStages /\ (rpc \in {"req", "retry", "sleep", "fail"} \/ rpc' = "fail")) =>
          UNCHANGED <<promInv, promMeter, influx>>
    ]_vars

\* the write of a meter reading has failed: the gauges hold the reading of
\* meter 1 and the time-series sink never received one
C29_Witness ==
  /\ lastLog = "failed_to_write"
  /\ \E n \in DOMAIN promMeter : promMeter[n].val = Meter(1)
  /\ \A k \in DOMAIN influx.fields : influx.fields[k] # Meter(1)
  /\ influx.measurement # <<"none", 0>>

====
